---- MODULE Spec2Model ----
(***************************************************************************)
(* The PBF output format of libosmium                                      *)
(* (include/osmium/io/detail/pbf_output_format.hpp): the working           *)
(* PrimitiveBlock, the DenseNodes column store, the flush path, the        *)
(* SerializeBlob jobs of the thread pool and the ordered output queue;    *)
(* and the VerboseOutput stream (include/osmium/util/verbose_output.hpp).  *)
(*                                                                         *)
(* Byte buffers are kept as the sequence of protobuf messages written to   *)
(* them; their length in bytes is computed from the protobuf encoding      *)
(* (one tag byte, varint lengths, zig-zag for sint fields).                *)
(***************************************************************************)
EXTENDS Integers, Sequences, FiniteSets, TLC

(***************************************************************************)
(* Bounds of the model.                                                    *)
(***************************************************************************)

\* Number of entities handed to node()/way()/relation() in one run.
MaxWrites == 3

\* Number of tags of the heavily tagged sample node.
MaxTags == 25

\* Number of calls made on the string table in one run of SpecStringTable.
MaxCalls == 4

\* Capacity of the output queue (futures waiting for the writer).
QueueCap == 2

\* max_entities_per_block is 8000 in the source (line 129); the model runs
\* with this scaled value so that a block fills up within MaxWrites.
max_entities_per_block == 2

\* max_uncompressed_blob_size is 16 MiB in the source; the model runs with
\* this scaled value so that a block reaches the size cap within MaxWrites.
max_uncompressed_blob_size == 128

\* INT32_MAX is 2^31 - 1 in the source; the model runs with the 16 bit value
\* so that sums and differences of such values stay within the integers of
\* the model checker.  int32_t is INT32_MIN..INT32_MAX and uint32_t is
\* 0..UINT32_MAX at this width.
INT32_MAX == 32767

(***************************************************************************)
(* Program constants.                                                      *)
(***************************************************************************)

location_granularity == 100

\* sizeof(int64_t), DenseNodes::size()
SizeofInt64 == 8

\* PrimitiveBlock::max_used_blob_size: 95% of the blob size, integer division
max_used_blob_size == (max_uncompressed_blob_size * 95) \div 100

INT32_MIN == -INT32_MAX - 1

UINT32_MAX == 2 * INT32_MAX + 1

\* static_cast<int32_t>(v): the value modulo 2^32 that lies in int32_t
static_cast_int32(v) == ((v - INT32_MIN) % (UINT32_MAX + 1)) + INT32_MIN

(***************************************************************************)
(* Generic helpers on sequences.                                           *)
(***************************************************************************)

\* the sum of s[lo..hi], by halves
RECURSIVE SumRange(_, _, _)
SumRange(s, lo, hi) ==
    IF lo > hi THEN 0
    ELSE IF lo = hi THEN s[lo]
    ELSE SumRange(s, lo, (lo + hi) \div 2)
           + SumRange(s, (lo + hi) \div 2 + 1, hi)

SumSeq(s) == SumRange(s, 1, Len(s))

\* the elements of s at the indices in keep, in the order of s
SubSeqAt(s, keep) ==
    [k \in 1..Cardinality(keep) |->
        s[CHOOSE i \in keep : Cardinality({j \in keep : j < i}) = k - 1]]

\* prefix sums starting from zero: the inverse of delta encoding
RECURSIVE PrefixSumsFrom(_, _)
PrefixSumsFrom(acc, s) ==
    IF s = <<>> THEN <<>>
    ELSE <<acc + Head(s)>> \o PrefixSumsFrom(acc + Head(s), Tail(s))

PrefixSums(s) == PrefixSumsFrom(0, s)

(***************************************************************************)
(* Protobuf encoding lengths (protozero).                                  *)
(***************************************************************************)

\* bytes of a varint holding the unsigned value v
RECURSIVE VarintLen(_)
VarintLen(v) == IF v < 128 THEN 1 ELSE 1 + VarintLen(v \div 128)

\* zig-zag encoding of a signed value (sint32 / sint64 fields)
ZigZag(v) == IF v >= 0 THEN 2 * v ELSE -2 * v - 1

\* an int32/int64 field: negative values are sign-extended to ten bytes
IntLen(v) == IF v >= 0 THEN VarintLen(v) ELSE 10

SIntLen(v) == VarintLen(ZigZag(v))

\* a length-delimited field of n bytes: tag, length, content
BytesFieldLen(n) == 1 + VarintLen(n) + n

\* a scalar varint field: tag and value
IntFieldLen(v) == 1 + IntLen(v)
SIntFieldLen(v) == 1 + SIntLen(v)

\* a packed field; protozero writes nothing for an empty range
PackedIntLen(s) ==
    IF s = <<>> THEN 0
    ELSE BytesFieldLen(SumSeq([i \in 1..Len(s) |-> IntLen(s[i])]))

PackedSIntLen(s) ==
    IF s = <<>> THEN 0
    ELSE BytesFieldLen(SumSeq([i \in 1..Len(s) |-> SIntLen(s[i])]))

PackedBoolLen(s) == IF s = <<>> THEN 0 ELSE BytesFieldLen(Len(s))

(***************************************************************************)
(* Input: OSM entities.  Coordinates are osmium::Location values, integers *)
(* in units of 10^-7 degrees.                                              *)
(***************************************************************************)

LongKey == "a_tag_key_that_is_long_enough_to_fill_a_scaled_block_up_to_its_size_cap_with_a_single_entity_xxxx"

NoTags == <<>>

\* MaxTags tags that share one key and one value
ManyTags == [i \in 1..MaxTags |-> <<"k", "v">>]

LongTag == << <<LongKey, "v">> >>

Meta(id) ==
    [version |-> id, timestamp |-> 1000 + id, changeset |-> 50 + id,
     uid |-> 7 * id, user |-> IF id = 1 THEN "alice" ELSE "bob",
     visible |-> TRUE]

Node(id, tags) ==
    [kind |-> "node", id |-> id, meta |-> Meta(id), tags |-> tags,
     location |-> [x |-> 100 * id + 30, y |-> -100 * id - 70],
     nodes |-> <<>>, members |-> <<>>]

NodeSamples == { Node(1, NoTags), Node(5, ManyTags), Node(1, LongTag) }

WaySamples ==
    { [kind |-> "way", id |-> 10, meta |-> Meta(1),
       tags |-> << <<"highway", "residential">> >>,
       location |-> [x |-> 0, y |-> 0],
       nodes |-> << [ref |-> 100, location |-> [x |-> 130, y |-> 270]],
                    [ref |-> 101, location |-> [x |-> 130, y |-> -330]],
                    [ref |-> 99, location |-> [x |-> 0, y |-> 0]] >>,
       members |-> <<>>] }

RelationSamples ==
    { [kind |-> "relation", id |-> 7, meta |-> Meta(2), tags |-> <<>>,
       location |-> [x |-> 0, y |-> 0], nodes |-> <<>>,
       members |-> << [type |-> "way", ref |-> 20, role |-> "outer"],
                      [type |-> "way", ref |-> 22, role |-> "inner"],
                      [type |-> "node", ref |-> 5, role |-> ""] >>] }

Entities == NodeSamples \cup WaySamples \cup RelationSamples

(***************************************************************************)
(* Options: the constructor reads them from the File.                      *)
(***************************************************************************)

MetaNone ==
    [version |-> FALSE, timestamp |-> FALSE, changeset |-> FALSE,
     uid |-> FALSE, user |-> FALSE]

MetaAll ==
    [version |-> TRUE, timestamp |-> TRUE, changeset |-> TRUE,
     uid |-> TRUE, user |-> TRUE]

\* osmium::metadata_options::any()
MetaAny(m) == m.version \/ m.timestamp \/ m.changeset \/ m.uid \/ m.user

\* The File settings the runs are started with.  The value of
\* pbf_compression_level is the sequence of its characters.
FileSamples ==
    { [pbf_dense_nodes |-> d, add_metadata |-> m,
       has_multiple_object_versions |-> m.version, locations_on_ways |-> ~d,
       pbf_compression |-> "zlib", pbf_add_metadata |-> "",
       pbf_compression_level |-> <<>>] :
      d \in BOOLEAN, m \in {MetaNone, MetaAll} }

zlib_default_compression_level == -1

\* struct pbf_output_options: the default member initializers
pbf_output_options ==
    [add_metadata |-> MetaAll,
     compression_level |-> 0,
     use_compression |-> "zlib",
     use_dense_nodes |-> TRUE,
     add_historical_information_flag |-> FALSE,
     add_visible_flag |-> FALSE,
     locations_on_ways |-> FALSE]

\* the characters std::isspace holds of (those that occur in the samples)
SpaceChars == {" ", "\t"}

DigitChars == <<"0", "1", "2", "3", "4", "5", "6", "7", "8", "9">>

\* std::isdigit
IsDigit(c) == \E d \in 1..Len(DigitChars) : DigitChars[d] = c

DigitValue(c) == (CHOOSE d \in 1..Len(DigitChars) : DigitChars[d] = c) - 1

\* the number a sequence of digits stands for, base 10
RECURSIVE DecimalValue(_)
DecimalValue(ds) ==
    IF ds = <<>> THEN 0
    ELSE 10 * DecimalValue(SubSeq(ds, 1, Len(ds) - 1))
           + DigitValue(ds[Len(ds)])

\* the first index from from on at which s holds none of chars, Len(s) + 1
\* (the terminating '\0' of c_str()) if there is none
FirstNot(s, from, chars) ==
    CHOOSE i \in from..(Len(s) + 1) :
        /\ i = Len(s) + 1 \/ s[i] \notin chars
        /\ \A k \in from..(i - 1) : s[k] \in chars

\* a strtol that reports every string as read to its end
strtol_to_end(s) ==
    LET start == FirstNot(s, 1, SpaceChars)
        signed == start <= Len(s) /\ s[start] \in {"+", "-"}
        first == IF signed THEN start + 1 ELSE start
        stop == FirstNot(s, first,
                         {DigitChars[d] : d \in DOMAIN DigitChars})
        value == DecimalValue(SubSeq(s, first, stop - 1))
    IN  [val |-> IF signed /\ s[start] = "-" THEN -value ELSE value,
         end |-> Len(s) + 1]

\* std::strtol(s, &end, 10): white space, an optional sign, digits; end is
\* the index of the first character not read, 1 if no digits were found
\* (values beyond long do not occur in the samples)
strtol(s) ==
    LET start == FirstNot(s, 1, SpaceChars)
        signed == start <= Len(s) /\ s[start] \in {"+", "-"}
        first == IF signed THEN start + 1 ELSE start
        stop == FirstNot(s, first,
                         {DigitChars[d] : d \in DOMAIN DigitChars})
        value == DecimalValue(SubSeq(s, first, stop - 1))
    IN  IF stop = first THEN [val |-> 0, end |-> 1]
        ELSE [val |-> IF signed /\ s[start] = "-" THEN -value ELSE value,
              end |-> stop]

\* the build: TRUE if the macro OSMIUM_WITH_LZ4 is defined.  The model is
\* of a build without lz4.
OSMIUM_WITH_LZ4 == FALSE

\* a get_compression_type that takes lz4 in every build
get_compression_type_any(val) == IF val = "" THEN "zlib" ELSE val

\* get_compression_type(val): the pbf_compression the option names, zlib if
\* it is not set; "throws" for lz4 in a build without lz4
get_compression_type(val) ==
    IF val = "" THEN "zlib"
    ELSE IF val = "lz4" /\ ~OSMIUM_WITH_LZ4 THEN "throws"
    ELSE val

\* zlib_check_compression_level(val): FALSE if it throws, which it does for
\* a level out of the range of the codec
zlib_check_compression_level(val) == val \in 0..9

\* PBFOutputFormat::PBFOutputFormat: whether it threw std::invalid_argument
\* and the options assigned by then
Constructor(file) ==
    LET compression == get_compression_type(file.pbf_compression)
        set == [pbf_output_options EXCEPT
                  !.use_dense_nodes = file.pbf_dense_nodes,
                  !.use_compression = compression,
                  !.add_metadata = file.add_metadata,
                  !.add_historical_information_flag =
                      file.has_multiple_object_versions,
                  !.add_visible_flag = file.has_multiple_object_versions,
                  !.locations_on_ways = file.locations_on_ways]
        pbl == file.pbf_compression_level
        parsed == strtol(pbl)
    IN  IF file.pbf_add_metadata # ""
        THEN [threw |-> TRUE, options |-> pbf_output_options]
        ELSE IF compression = "throws"
        THEN [threw |-> TRUE,
              options |->
                 [pbf_output_options EXCEPT
                    !.use_dense_nodes = file.pbf_dense_nodes]]
        ELSE IF pbl = <<>>
        THEN [threw |-> FALSE,
              options |->
                 [set EXCEPT !.compression_level =
                     IF set.use_compression = "zlib"
                     THEN zlib_default_compression_level ELSE @]]
        ELSE IF parsed.end <= Len(pbl)
        THEN [threw |-> TRUE, options |-> set]
        ELSE IF set.use_compression = "none"
        THEN [threw |-> TRUE, options |-> set]
        ELSE IF set.use_compression = "zlib"
                  /\ ~zlib_check_compression_level(parsed.val)
        THEN [threw |-> TRUE, options |-> set]
        ELSE [threw |-> FALSE,
              options |->
                 [set EXCEPT !.compression_level =
                     static_cast_int32(parsed.val)]]

(***************************************************************************)
(* lonlat2int: Location::lat_without_check() is y / 10^7 as a double; the  *)
(* conversion multiplies by lonlat_resolution = 10^7, divides by the       *)
(* granularity and rounds half away from zero (std::round).                *)
(***************************************************************************)

RoundDiv(a, b) ==
    IF a >= 0 THEN (2 * a + b) \div (2 * b)
    ELSE -((2 * (-a) + b) \div (2 * b))

lonlat2int(c) == RoundDiv(c, location_granularity)

(***************************************************************************)
(* DeltaEncode (osmium/util/delta.hpp): update(x) returns x - prev and     *)
(* remembers x.  The encoder is its last value, zero at construction.      *)
(***************************************************************************)

DeltaInit == 0

DeltaUpdate(prev, x) == x - prev

\* DeltaEncode<user_id_type, int32_t>: the value is held as uint32_t, the
\* delta is computed and returned in int32_t
DeltaUpdateInt32(prev, x) ==
    static_cast_int32(static_cast_int32(x) - static_cast_int32(prev))

\* the deltas of a whole sequence, from an encoder with last value prev
RECURSIVE DeltaSeqFrom(_, _)
DeltaSeqFrom(prev, s) ==
    IF s = <<>> THEN <<>>
    ELSE <<DeltaUpdate(prev, Head(s))>> \o DeltaSeqFrom(Head(s), Tail(s))

(***************************************************************************)
(* StringTable (osmium/io/detail/string_table.hpp): a sequence of strings; *)
(* the entry at position i has index i - 1.  Index 0 is reserved for the   *)
(* empty entry put there by clear(); add() looks among the strings added   *)
(* after it, so that a string added gets an index of 1 or more.            *)
(***************************************************************************)

\* StringTable::clear(): drop all entries, reinsert the empty entry
StClear == <<"">>

StHas(st, s) == \E i \in 2..Len(st) : st[i] = s

\* an add() that appends without looking the string up
StAddAlways(st, s) == Append(st, s)

\* the table after add(s)
StAdd(st, s) == IF StHas(st, s) THEN st ELSE Append(st, s)

\* the index add(s) returns
StIndex(st, s) ==
    IF StHas(st, s) THEN (CHOOSE i \in 2..Len(st) : st[i] = s) - 1
    ELSE Len(st)

\* the table after add() of each string of strs, in order: a string that
\* is not yet in the table is appended where it occurs first
StAddAll(st, strs) ==
    LET all == st \o strs
    IN  SubSeqAt(all, {i \in 1..Len(all) :
                         i = 1 \/ \A j \in 2..(i - 1) : all[j] # all[i]})

\* StringTable::size(): the bytes of the strings held
StSize(st) == SumSeq([i \in 1..Len(st) |-> Len(st[i])])

(***************************************************************************)
(* osmium::item_type values (item_type.hpp) and the node/way/relation      *)
(* index the PBF member type is taken from.                                *)
(***************************************************************************)

ItemTypeValue(t) ==
    CASE t = "undefined" -> 0
      [] t = "node" -> 1
      [] t = "way" -> 2
      [] t = "relation" -> 3
      [] t = "area" -> 4
      [] t = "changeset" -> 5
      [] t = "tag_list" -> 17
      [] t = "way_node_list" -> 18
      [] t = "relation_member_list" -> 19
      [] t = "relation_member_list_with_full_members" -> 35
      [] t = "outer_ring" -> 64
      [] t = "inner_ring" -> 65

item_type_to_nwr_index(t) == ItemTypeValue(t) - 1

(***************************************************************************)
(* class DenseNodes                                                        *)
(***************************************************************************)

\* a freshly constructed DenseNodes: empty columns, delta encoders at zero
DenseNew ==
    [ids |-> <<>>, versions |-> <<>>, timestamps |-> <<>>,
     changesets |-> <<>>, uids |-> <<>>, user_sids |-> <<>>,
     visibles |-> <<>>, lats |-> <<>>, lons |-> <<>>, tags |-> <<>>,
     delta_id |-> DeltaInit, delta_timestamp |-> DeltaInit,
     delta_changeset |-> DeltaInit, delta_uid |-> DeltaInit,
     delta_user_sid |-> DeltaInit, delta_lat |-> DeltaInit,
     delta_lon |-> DeltaInit]

\* the unique_ptr m_dense_nodes holding nothing
NoDense == [none |-> TRUE]

\* DenseNodes::size()
DenseSize(dn) == Len(dn.ids) * 3 * SizeofInt64

\* key and value of every tag, in the order of the tag list
TagStrings(obj) ==
    [i \in 1..(2 * Len(obj.tags)) |->
        obj.tags[(i + 1) \div 2][IF i % 2 = 1 THEN 1 ELSE 2]]

\* the strings add_node() stores, in the order it stores them
DenseStrings(opts, nd) ==
    (IF opts.add_metadata.user THEN <<nd.meta.user>> ELSE <<>>)
        \o TagStrings(nd)

\* DenseNodes::add_node: the string table after the call
DenseAddNodeTable(st, opts, nd) == StAddAll(st, DenseStrings(opts, nd))

\* an add_node that ends the tags with a 0 only for a node that has tags
DenseAddNodeNoEnd(dn, st, opts, nd) ==
    LET st2 == DenseAddNodeTable(st, opts, nd)
        kv == TagStrings(nd)
        lat == lonlat2int(nd.location.y)
        lon == lonlat2int(nd.location.x)
        usid == StIndex(st2, nd.meta.user)
    IN  [dn EXCEPT
          !.ids = Append(@, DeltaUpdate(dn.delta_id, nd.id)),
          !.delta_id = nd.id,
          !.versions =
              IF opts.add_metadata.version
              THEN Append(@, static_cast_int32(nd.meta.version)) ELSE @,
          !.timestamps =
              IF opts.add_metadata.timestamp
              THEN Append(@, DeltaUpdate(dn.delta_timestamp,
                                         nd.meta.timestamp))
              ELSE @,
          !.delta_timestamp =
              IF opts.add_metadata.timestamp THEN nd.meta.timestamp ELSE @,
          !.changesets =
              IF opts.add_metadata.changeset
              THEN Append(@, DeltaUpdate(dn.delta_changeset,
                                         nd.meta.changeset))
              ELSE @,
          !.delta_changeset =
              IF opts.add_metadata.changeset THEN nd.meta.changeset ELSE @,
          !.uids =
              IF opts.add_metadata.uid
              THEN Append(@, DeltaUpdateInt32(dn.delta_uid, nd.meta.uid))
              ELSE @,
          !.delta_uid = IF opts.add_metadata.uid THEN nd.meta.uid ELSE @,
          !.user_sids =
              IF opts.add_metadata.user
              THEN Append(@, DeltaUpdate(dn.delta_user_sid, usid))
              ELSE @,
          !.delta_user_sid = IF opts.add_metadata.user THEN usid ELSE @,
          !.visibles =
              IF opts.add_visible_flag
              THEN Append(@, nd.meta.visible) ELSE @,
          !.lats = Append(@, DeltaUpdate(dn.delta_lat, lat)),
          !.delta_lat = lat,
          !.lons = Append(@, DeltaUpdate(dn.delta_lon, lon)),
          !.delta_lon = lon,
          !.tags = @ \o [i \in 1..Len(kv) |-> StIndex(st2, kv[i])]
                     \o (IF kv = <<>> THEN <<>> ELSE <<0>>)]

\* DenseNodes::add_node: the DenseNodes after the call; st is the string
\* table before it
DenseAddNode(dn, st, opts, nd) ==
    LET st2 == DenseAddNodeTable(st, opts, nd)
        kv == TagStrings(nd)
        lat == lonlat2int(nd.location.y)
        lon == lonlat2int(nd.location.x)
        usid == StIndex(st2, nd.meta.user)
    IN  [dn EXCEPT
          !.ids = Append(@, DeltaUpdate(dn.delta_id, nd.id)),
          !.delta_id = nd.id,
          !.versions =
              IF opts.add_metadata.version
              THEN Append(@, static_cast_int32(nd.meta.version)) ELSE @,
          !.timestamps =
              IF opts.add_metadata.timestamp
              THEN Append(@, DeltaUpdate(dn.delta_timestamp,
                                         nd.meta.timestamp))
              ELSE @,
          !.delta_timestamp =
              IF opts.add_metadata.timestamp THEN nd.meta.timestamp ELSE @,
          !.changesets =
              IF opts.add_metadata.changeset
              THEN Append(@, DeltaUpdate(dn.delta_changeset,
                                         nd.meta.changeset))
              ELSE @,
          !.delta_changeset =
              IF opts.add_metadata.changeset THEN nd.meta.changeset ELSE @,
          !.uids =
              IF opts.add_metadata.uid
              THEN Append(@, DeltaUpdateInt32(dn.delta_uid, nd.meta.uid))
              ELSE @,
          !.delta_uid = IF opts.add_metadata.uid THEN nd.meta.uid ELSE @,
          !.user_sids =
              IF opts.add_metadata.user
              THEN Append(@, DeltaUpdate(dn.delta_user_sid, usid))
              ELSE @,
          !.delta_user_sid = IF opts.add_metadata.user THEN usid ELSE @,
          !.visibles =
              IF opts.add_visible_flag
              THEN Append(@, nd.meta.visible) ELSE @,
          !.lats = Append(@, DeltaUpdate(dn.delta_lat, lat)),
          !.delta_lat = lat,
          !.lons = Append(@, DeltaUpdate(dn.delta_lon, lon)),
          !.delta_lon = lon,
          !.tags = @ \o [i \in 1..Len(kv) |-> StIndex(st2, kv[i])] \o <<0>>]

\* DenseNodes::serialize: the DenseNodes message; a column is written only
\* if its option is on
DenseSerialize(dn, opts) ==
    [has_info |-> MetaAny(opts.add_metadata) \/ opts.add_visible_flag,
     ids |-> dn.ids,
     versions |-> IF opts.add_metadata.version THEN dn.versions ELSE <<>>,
     timestamps |->
        IF opts.add_metadata.timestamp THEN dn.timestamps ELSE <<>>,
     changesets |->
        IF opts.add_metadata.changeset THEN dn.changesets ELSE <<>>,
     uids |-> IF opts.add_metadata.uid THEN dn.uids ELSE <<>>,
     user_sids |-> IF opts.add_metadata.user THEN dn.user_sids ELSE <<>>,
     visibles |-> IF opts.add_visible_flag THEN dn.visibles ELSE <<>>,
     lats |-> dn.lats,
     lons |-> dn.lons,
     keys_vals |-> dn.tags]

\* bytes of the DenseInfo submessage
DenseInfoLen(m) ==
    PackedIntLen(m.versions) + PackedSIntLen(m.timestamps)
        + PackedSIntLen(m.changesets) + PackedSIntLen(m.uids)
        + PackedSIntLen(m.user_sids) + PackedBoolLen(m.visibles)

\* bytes of a serialized DenseNodes message; an empty submessage is rolled
\* back by protozero
DenseLen(m) ==
    PackedSIntLen(m.ids)
        + (IF m.has_info /\ DenseInfoLen(m) > 0
           THEN BytesFieldLen(DenseInfoLen(m)) ELSE 0)
        + PackedSIntLen(m.lats) + PackedSIntLen(m.lons)
        + PackedIntLen(m.keys_vals)

(***************************************************************************)
(* Node, Way and Relation messages (PBFOutputFormat::add_meta, node, way,  *)
(* relation).                                                              *)
(***************************************************************************)

TagKeys(obj) == [i \in 1..Len(obj.tags) |-> obj.tags[i][1]]
TagVals(obj) == [i \in 1..Len(obj.tags) |-> obj.tags[i][2]]

\* the strings add_meta() stores, in the order it stores them: all keys,
\* then all values, then the user name
AddMetaStrings(opts, obj) ==
    TagKeys(obj) \o TagVals(obj)
        \o (IF opts.add_metadata.user THEN <<obj.meta.user>> ELSE <<>>)

\* the fields of the Info submessage add_meta() writes
InfoFields(opts) ==
    IF MetaAny(opts.add_metadata) \/ opts.add_visible_flag
    THEN (IF opts.add_metadata.version THEN {"version"} ELSE {})
           \cup (IF opts.add_metadata.timestamp THEN {"timestamp"} ELSE {})
           \cup (IF opts.add_metadata.changeset THEN {"changeset"} ELSE {})
           \cup (IF opts.add_metadata.uid THEN {"uid"} ELSE {})
           \cup (IF opts.add_metadata.user THEN {"user_sid"} ELSE {})
           \cup (IF opts.add_visible_flag THEN {"visible"} ELSE {})
    ELSE {}

\* add_meta: keys, vals and Info of an object; st is the string table after
\* the strings of the object have been stored
AddMeta(opts, obj, st) ==
    [keys |-> [i \in 1..Len(obj.tags) |-> StIndex(st, obj.tags[i][1])],
     vals |-> [i \in 1..Len(obj.tags) |-> StIndex(st, obj.tags[i][2])],
     info |-> [f \in InfoFields(opts) |->
                 CASE f = "version" -> static_cast_int32(obj.meta.version)
                   [] f = "timestamp" -> obj.meta.timestamp
                   [] f = "changeset" -> obj.meta.changeset
                   [] f = "uid" -> static_cast_int32(obj.meta.uid)
                   [] f = "user_sid" -> StIndex(st, obj.meta.user)
                   [] f = "visible" -> obj.meta.visible]]

InfoLen(info) ==
    (IF "version" \in DOMAIN info THEN IntFieldLen(info["version"]) ELSE 0)
      + (IF "timestamp" \in DOMAIN info
         THEN IntFieldLen(info["timestamp"]) ELSE 0)
      + (IF "changeset" \in DOMAIN info
         THEN IntFieldLen(info["changeset"]) ELSE 0)
      + (IF "uid" \in DOMAIN info THEN IntFieldLen(info["uid"]) ELSE 0)
      + (IF "user_sid" \in DOMAIN info
         THEN IntFieldLen(info["user_sid"]) ELSE 0)
      + (IF "visible" \in DOMAIN info THEN 2 ELSE 0)

MetaLen(m) ==
    PackedIntLen(m.keys) + PackedIntLen(m.vals)
      + (IF InfoLen(m.info) > 0 THEN BytesFieldLen(InfoLen(m.info)) ELSE 0)

\* the strings the handler of an entity stores in the string table
EntityStrings(opts, e) ==
    CASE e.kind = "node" ->
           IF opts.use_dense_nodes THEN DenseStrings(opts, e)
           ELSE AddMetaStrings(opts, e)
      [] e.kind = "way" -> AddMetaStrings(opts, e)
      [] e.kind = "relation" ->
           AddMetaStrings(opts, e)
             \o [i \in 1..Len(e.members) |-> e.members[i].role]

\* PBFOutputFormat::node, dense mode off: the Node message
NodeMsg(opts, nd, st) ==
    [id |-> nd.id, meta |-> AddMeta(opts, nd, st),
     lat |-> lonlat2int(nd.location.y),
     lon |-> lonlat2int(nd.location.x)]

NodeLen(m) ==
    SIntFieldLen(m.id) + MetaLen(m.meta) + SIntFieldLen(m.lat)
      + SIntFieldLen(m.lon)

\* a way() with one delta encoder for refs, lon and lat of the way
WayMsg_one_encoder(opts, wy, st) ==
    LET refs == [i \in 1..Len(wy.nodes) |-> wy.nodes[i].ref]
        lons == [i \in 1..Len(wy.nodes) |->
                   lonlat2int(wy.nodes[i].location.x)]
        lats == [i \in 1..Len(wy.nodes) |->
                   lonlat2int(wy.nodes[i].location.y)]
        all == DeltaSeqFrom(DeltaInit, refs \o lons \o lats)
    IN  [id |-> wy.id, meta |-> AddMeta(opts, wy, st),
         refs |-> SubSeq(all, 1, Len(refs)),
         lons |-> IF opts.locations_on_ways
                  THEN SubSeq(all, Len(refs) + 1, 2 * Len(refs)) ELSE <<>>,
         lats |-> IF opts.locations_on_ways
                  THEN SubSeq(all, 2 * Len(refs) + 1, 3 * Len(refs))
                  ELSE <<>>]

\* PBFOutputFormat::way: the Way message
WayMsg(opts, wy, st) ==
    [id |-> wy.id, meta |-> AddMeta(opts, wy, st),
     refs |-> DeltaSeqFrom(DeltaInit,
                 [i \in 1..Len(wy.nodes) |-> wy.nodes[i].ref]),
     lons |->
        IF opts.locations_on_ways
        THEN DeltaSeqFrom(DeltaInit,
                [i \in 1..Len(wy.nodes) |->
                    lonlat2int(wy.nodes[i].location.x)])
        ELSE <<>>,
     lats |->
        IF opts.locations_on_ways
        THEN DeltaSeqFrom(DeltaInit,
                [i \in 1..Len(wy.nodes) |->
                    lonlat2int(wy.nodes[i].location.y)])
        ELSE <<>>]

WayLen(m) ==
    IntFieldLen(m.id) + MetaLen(m.meta) + PackedSIntLen(m.refs)
      + PackedSIntLen(m.lons) + PackedSIntLen(m.lats)

\* a relation() that writes the values of item_type as the member types
RelationMsg_item_type_values(opts, rel, st) ==
    [id |-> rel.id, meta |-> AddMeta(opts, rel, st),
     roles_sid |->
        [i \in 1..Len(rel.members) |-> StIndex(st, rel.members[i].role)],
     memids |-> DeltaSeqFrom(DeltaInit,
                   [i \in 1..Len(rel.members) |-> rel.members[i].ref]),
     types |->
        [i \in 1..Len(rel.members) |-> ItemTypeValue(rel.members[i].type)]]

\* PBFOutputFormat::relation: the Relation message
RelationMsg(opts, rel, st) ==
    [id |-> rel.id, meta |-> AddMeta(opts, rel, st),
     roles_sid |->
        [i \in 1..Len(rel.members) |-> StIndex(st, rel.members[i].role)],
     memids |-> DeltaSeqFrom(DeltaInit,
                   [i \in 1..Len(rel.members) |-> rel.members[i].ref]),
     types |->
        [i \in 1..Len(rel.members) |->
            item_type_to_nwr_index(rel.members[i].type)]]

RelationLen(m) ==
    IntFieldLen(m.id) + MetaLen(m.meta) + PackedIntLen(m.roles_sid)
      + PackedSIntLen(m.memids) + PackedIntLen(m.types)

(***************************************************************************)
(* class PrimitiveBlock.  m_pbf_primitive_group_data is the sequence of    *)
(* the fields written to the PrimitiveGroup, each [field, msg].            *)
(***************************************************************************)

\* OSMFormat::PrimitiveGroup: the group type an entity goes to
GroupType(opts, e) ==
    CASE e.kind = "node" ->
           IF opts.use_dense_nodes THEN "dense" ELSE "nodes"
      [] e.kind = "way" -> "ways"
      [] e.kind = "relation" -> "relations"

\* PrimitiveBlock::PrimitiveBlock
BlockNew ==
    [group_data |-> <<>>, stringtable |-> StClear, dense_nodes |-> NoDense,
     type |-> "unknown", count |-> 0]

\* bytes of one field of the PrimitiveGroup
GroupFieldLen(f) ==
    BytesFieldLen(CASE f.field = "dense" -> DenseLen(f.msg)
                    [] f.field = "nodes" -> NodeLen(f.msg)
                    [] f.field = "ways" -> WayLen(f.msg)
                    [] f.field = "relations" -> RelationLen(f.msg))

\* m_pbf_primitive_group_data.size()
GroupDataLen(g) == SumSeq([i \in 1..Len(g) |-> GroupFieldLen(g[i])])

\* PrimitiveBlock::size()
size(b) ==
    GroupDataLen(b.group_data) + StSize(b.stringtable)
      + (IF b.dense_nodes # NoDense THEN DenseSize(b.dense_nodes) ELSE 0)

\* can_add without the comparison of the types
can_add_any_type(b, type) ==
    IF b.count >= max_entities_per_block THEN FALSE
    ELSE size(b) < max_used_blob_size

\* can_add that lets one entity more into a block
can_add_one_more(b, type) ==
    IF type # b.type THEN FALSE
    ELSE IF b.count > max_entities_per_block THEN FALSE
    ELSE size(b) < max_used_blob_size

\* can_add without the look at the size
can_add_any_size(b, type) ==
    IF type # b.type THEN FALSE
    ELSE b.count < max_entities_per_block

\* PrimitiveBlock::can_add
can_add(b, type) ==
    IF type # b.type THEN FALSE
    ELSE IF b.count >= max_entities_per_block THEN FALSE
    ELSE size(b) < max_used_blob_size

\* a reset whose string table is left without the empty entry
reset_no_empty_entry(b, type) ==
    [group_data |-> <<>>, stringtable |-> <<>>, dense_nodes |-> NoDense,
     type |-> type, count |-> 0]

\* a reset that leaves the group data and the DenseNodes in the block
reset_keep_group(b, type) == [b EXCEPT !.type = type, !.count = 0]

\* a reset that clears the columns of the DenseNodes, not its delta encoders
reset_keep_delta(b, type) ==
    [group_data |-> <<>>, stringtable |-> StClear,
     dense_nodes |->
        IF b.dense_nodes = NoDense THEN NoDense
        ELSE [b.dense_nodes EXCEPT
                !.ids = <<>>, !.versions = <<>>, !.timestamps = <<>>,
                !.changesets = <<>>, !.uids = <<>>, !.user_sids = <<>>,
                !.visibles = <<>>, !.lats = <<>>, !.lons = <<>>,
                !.tags = <<>>],
     type |-> type, count |-> 0]

\* PrimitiveBlock::reset
reset(b, type) ==
    [group_data |-> <<>>, stringtable |-> StClear, dense_nodes |-> NoDense,
     type |-> type, count |-> 0]

\* PrimitiveBlock::add_dense_node
add_dense_node(b, opts, nd) ==
    LET dn == IF b.dense_nodes = NoDense THEN DenseNew ELSE b.dense_nodes
    IN  [b EXCEPT
          !.dense_nodes = DenseAddNode(dn, b.stringtable, opts, nd),
          !.stringtable = DenseAddNodeTable(b.stringtable, opts, nd),
          !.count = @ + 1]

\* a group() that does not count the entity
add_to_group_uncounted(b, opts, e) ==
    LET st == StAddAll(b.stringtable, EntityStrings(opts, e))
        f == CASE e.kind = "node" ->
                    [field |-> "nodes", msg |-> NodeMsg(opts, e, st)]
               [] e.kind = "way" ->
                    [field |-> "ways", msg |-> WayMsg(opts, e, st)]
               [] e.kind = "relation" ->
                    [field |-> "relations", msg |-> RelationMsg(opts, e, st)]
    IN  [b EXCEPT !.stringtable = st, !.group_data = Append(@, f)]

\* PrimitiveBlock::group() followed by the message the handler builds in it
add_to_group(b, opts, e) ==
    LET st == StAddAll(b.stringtable, EntityStrings(opts, e))
        f == CASE e.kind = "node" ->
                    [field |-> "nodes", msg |-> NodeMsg(opts, e, st)]
               [] e.kind = "way" ->
                    [field |-> "ways", msg |-> WayMsg(opts, e, st)]
               [] e.kind = "relation" ->
                    [field |-> "relations", msg |-> RelationMsg(opts, e, st)]
    IN  [b EXCEPT
          !.count = @ + 1,
          !.stringtable = st,
          !.group_data = Append(@, f)]

\* PrimitiveBlock::group_data(): for a DenseNodes block the serialized
\* DenseNodes are appended to the group data, which is returned
group_data(b, opts) ==
    IF b.type = "dense"
    THEN Append(b.group_data,
                [field |-> "dense",
                 msg |-> DenseSerialize(b.dense_nodes, opts)])
    ELSE b.group_data

\* PrimitiveBlock::write_stringtable: bytes of the StringTable message
StringTableLen(st) == SumSeq([i \in 1..Len(st) |-> BytesFieldLen(Len(st[i]))])

(***************************************************************************)
(* class SerializeBlob: the job handed to the thread pool.                 *)
(***************************************************************************)

\* bytes of a PrimitiveBlock message: the string table, then one
\* PrimitiveGroup holding the group data
PrimitiveBlockLen(msg) ==
    BytesFieldLen(StringTableLen(msg.stringtable))
      + BytesFieldLen(GroupDataLen(msg.primitivegroup))

RECURSIVE StringsLen(_)
StringsLen(ss) ==
    IF ss = <<>> THEN 0
    ELSE BytesFieldLen(Len(Head(ss))) + StringsLen(Tail(ss))

\* bytes of a HeaderBlock message
HeaderBlockLen(msg) ==
    (IF msg.bbox # <<>>
     THEN BytesFieldLen(SumSeq([i \in 1..Len(msg.bbox) |->
                                   SIntFieldLen(msg.bbox[i])]))
     ELSE 0)
      + StringsLen(msg.required_features)
      + StringsLen(msg.optional_features)
      + BytesFieldLen(Len(msg.writingprogram))

\* m_msg.size()
MsgLen(blob) ==
    IF blob.blob_type = "data" THEN PrimitiveBlockLen(blob.msg)
    ELSE HeaderBlockLen(blob.msg)

\* SerializeBlob::SerializeBlob
SerializeBlob(msg, type, use_compression, compression_level) ==
    [msg |-> msg, compression_level |-> compression_level,
     blob_type |-> type, use_compression |-> use_compression]

\* zlib_compress / lz4_compress: the compressed bytes stand for the message
\* they were made from
Compress(codec, msg, level) == [codec |-> codec, level |-> level, of |-> msg]

\* the exception osmium::pbf_error held by the future of a job
PbfError == [error |-> "pbf_error"]

\* a Blob that carries raw_size whatever the compression
BlobWithRawSize(blob, with_lz4) ==
    CASE blob.use_compression = "none" ->
           [raw_size |-> MsgLen(blob), raw |-> blob.msg]
      [] blob.use_compression = "zlib" ->
           [raw_size |-> MsgLen(blob),
            zlib_data |-> Compress("zlib", blob.msg, blob.compression_level)]
      [] blob.use_compression = "lz4" ->
           IF with_lz4
           THEN [raw_size |-> MsgLen(blob),
                 lz4_data |-> Compress("lz4", blob.msg,
                                       blob.compression_level)]
           ELSE PbfError

\* SerializeBlob::operator(): the fields of the Blob message, or the
\* exception thrown, in a build with or without lz4
Blob(blob, with_lz4) ==
    CASE blob.use_compression = "none" -> [raw |-> blob.msg]
      [] blob.use_compression = "zlib" ->
           [raw_size |-> static_cast_int32(MsgLen(blob)),
            zlib_data |-> Compress("zlib", blob.msg, blob.compression_level)]
      [] blob.use_compression = "lz4" ->
           IF with_lz4
           THEN [raw_size |-> static_cast_int32(MsgLen(blob)),
                 lz4_data |-> Compress("lz4", blob.msg,
                                       blob.compression_level)]
           ELSE PbfError

\* SerializeBlob::operator(): the type of the BlobHeader
BlobHeaderType(blob) ==
    IF blob.blob_type = "data" THEN "OSMData" ELSE "OSMHeader"

\* SerializeBlob::operator(): BlobHeader type and the Blob, or the
\* exception thrown
SerializeBlobCall(blob) ==
    LET b == Blob(blob, OSMIUM_WITH_LZ4)
    IN  IF b = PbfError THEN PbfError
        ELSE [type |-> BlobHeaderType(blob), blob |-> b]

\* blob_data.size(): the bytes of the Blob message, zsize those of the
\* compressed data
BlobDataSize(blob, b, zsize) ==
    IF blob.use_compression = "none" THEN BytesFieldLen(MsgLen(blob))
    ELSE IntFieldLen(b.raw_size) + BytesFieldLen(zsize)

\* a datasize that is the size of the message before compression
DataSizeOfMsg(blob, b, zsize) == static_cast_int32(MsgLen(blob))

\* the datasize of the BlobHeader
DataSize(blob, b, zsize) == static_cast_int32(BlobDataSize(blob, b, zsize))

\* blob_header_data.size()
BlobHeaderSize(h) == BytesFieldLen(Len(h.type)) + IntFieldLen(h.datasize)

\* the four bytes of a size, the lowest first
LittleEndian(n) ==
    <<n % 256, (n \div 256) % 256, (n \div 65536) % 256,
      (n \div 16777216) % 256>>

\* the four bytes of a size in network byte order
NetworkByteOrder(n) ==
    <<(n \div 16777216) % 256, (n \div 65536) % 256,
      (n \div 256) % 256, n % 256>>

\* SerializeBlob::operator(): the output, its parts in their order, or the
\* exception thrown; zsize is the length the compression returns
SerializeBlobOutput(blob, with_lz4, zsize) ==
    LET b == Blob(blob, with_lz4)
        h == [type |-> BlobHeaderType(blob),
              datasize |-> DataSize(blob, b, zsize)]
        hsize == BlobHeaderSize(h) % (UINT32_MAX + 1)
    IN  IF b = PbfError THEN PbfError
        ELSE [size |-> NetworkByteOrder(hsize),
              blob_header |-> h,
              blob |-> IF blob.use_compression = "none" THEN b
                       ELSE [f \in DOMAIN b |->
                               IF f = "raw_size" THEN b[f]
                               ELSE [data |-> b[f], size |-> zsize]]]

(***************************************************************************)
(* class PBFOutputFormat                                                   *)
(***************************************************************************)

\* The Headers the runs are started with: boxes are [left, bottom, right,
\* top] in units of 10^-7 degrees.
HeaderSamples ==
    { [boxes |-> <<>>, sorting |-> "", generator |-> "osmium"],
      [boxes |-> << <<10, 20, 30, 40>>, <<-5, 25, 15, 60>> >>,
       sorting |-> "Type_then_ID", generator |-> "osmium"] }

\* the header the runs on entities are started with: the one with boxes
SampleHeader == CHOOSE h \in HeaderSamples : h.boxes # <<>>

Min(a, b) == IF a <= b THEN a ELSE b
Max(a, b) == IF a >= b THEN a ELSE b

\* Header::joined_boxes
RECURSIVE JoinedBoxes(_)
JoinedBoxes(boxes) ==
    IF Len(boxes) = 1 THEN boxes[1]
    ELSE LET r == JoinedBoxes(Tail(boxes))
             h == Head(boxes)
         IN  <<Min(h[1], r[1]), Min(h[2], r[2]),
               Max(h[3], r[3]), Max(h[4], r[4])>>

\* a HeaderBlock that requires HistoricalInformation whenever the version
\* of the objects is written
HeaderBlockVersions(opts, header) ==
    [bbox |->
        IF header.boxes # <<>>
        THEN LET box == JoinedBoxes(header.boxes)
             IN  <<box[1], box[3], box[4], box[2]>>
        ELSE <<>>,
     required_features |->
        <<"OsmSchema-V0.6">>
          \o (IF opts.use_dense_nodes THEN <<"DenseNodes">> ELSE <<>>)
          \o (IF opts.add_metadata.version
              THEN <<"HistoricalInformation">> ELSE <<>>),
     optional_features |->
        (IF opts.locations_on_ways THEN <<"LocationsOnWays">> ELSE <<>>)
          \o (IF header.sorting = "Type_then_ID"
              THEN <<"Sort.Type_then_ID">> ELSE <<>>),
     writingprogram |-> header.generator]

\* PBFOutputFormat::write_header: the HeaderBlock message; the bbox is
\* written as left, right, top, bottom
HeaderBlock(opts, header) ==
    [bbox |->
        IF header.boxes # <<>>
        THEN LET box == JoinedBoxes(header.boxes)
             IN  <<box[1], box[3], box[4], box[2]>>
        ELSE <<>>,
     required_features |->
        <<"OsmSchema-V0.6">>
          \o (IF opts.use_dense_nodes THEN <<"DenseNodes">> ELSE <<>>)
          \o (IF opts.add_historical_information_flag
              THEN <<"HistoricalInformation">> ELSE <<>>),
     optional_features |->
        (IF opts.locations_on_ways THEN <<"LocationsOnWays">> ELSE <<>>)
          \o (IF header.sorting = "Type_then_ID"
              THEN <<"Sort.Type_then_ID">> ELSE <<>>),
     writingprogram |-> header.generator]

\* a PrimitiveBlock message whose string table is written when it has
\* been cleared already
PrimitiveBlockDataCleared(b, opts) ==
    [stringtable |-> StClear, primitivegroup |-> group_data(b, opts)]

\* store_primitive_block: the PrimitiveBlock message built from the block
PrimitiveBlockData(b, opts) ==
    [stringtable |-> b.stringtable, primitivegroup |-> group_data(b, opts)]

\* store_primitive_block: the job submitted for the block
DataBlob(b, opts) ==
    SerializeBlob(PrimitiveBlockData(b, opts), "data",
                  opts.use_compression, opts.compression_level)

\* a header submitted with the blob type of a data block
HeaderBlobAsData(opts, header) ==
    SerializeBlob(HeaderBlock(opts, header), "data",
                  opts.use_compression, opts.compression_level)

\* write_header: the job submitted for the header
HeaderBlob(opts, header) ==
    SerializeBlob(HeaderBlock(opts, header), "header",
                  opts.use_compression, opts.compression_level)

\* m_pool.submit(job): the job joins the pool, its result not yet there
NoResult == [none |-> TRUE]

Submit(p, blob) == Append(p, [blob |-> blob, result |-> NoResult])

\* a queue that hands out the future pushed last first
QueuePushFront(q, future) == <<future>> \o q

\* m_output_queue.push(future)
QueuePush(q, future) == Append(q, future)

\* node(), way(), relation(): the entity is put into the block
AddEntity(b, opts, e) ==
    IF GroupType(opts, e) = "dense" THEN add_dense_node(b, opts, e)
    ELSE add_to_group(b, opts, e)

(***************************************************************************)
(* State.                                                                  *)
(***************************************************************************)

VARIABLES
    m_options,          \* pbf_output_options
    m_primitive_block,  \* the working PrimitiveBlock
    pool,               \* jobs submitted to m_pool, in submission order
    m_output_queue,     \* futures (indices into pool) pushed, not yet taken
    sink,               \* the blobs the writer has written
    written,            \* the futures the writer has taken, in order
    early,              \* the jobs done before a job submitted earlier
    pc,                 \* "constructed", "open" (header written),
                        \* "closed", "aborted" (an assert failed)
    waiting,            \* the call waiting in m_output_queue.push(), if any
    input,              \* the entities written so far
    calls,              \* the calls made on the string table, with results
    ndebug,             \* the build: TRUE if NDEBUG is defined (assert() is
                        \* compiled out), FALSE if the asserts are checked
    verbose_output,     \* a VerboseOutput object: m_start, m_verbose,
                        \* m_newline
    cerr,               \* what was written to std::cerr
    now                 \* the value of time(NULL)

\* the state of the verbose output
verbose_vars == <<verbose_output, cerr, now>>

\* the state of the PBF output
pbf_vars ==
    <<m_options, m_primitive_block, pool, m_output_queue, sink, written,
      early, pc, waiting, input, ndebug>>

vars == <<pbf_vars, calls, verbose_vars>>

\* VerboseOutput::VerboseOutput(bool verbose)
VerboseOutput(verbose, time) ==
    [m_start |-> time, m_verbose |-> verbose, m_newline |-> TRUE]

\* a VerboseOutput that is not used: nothing written, the clock at rest
NoVerboseOutput ==
    /\ verbose_output = VerboseOutput(FALSE, 0)
    /\ cerr = <<>>
    /\ now = 0

NotWaiting == [op |-> "none"]

\* the members after construction
Constructed ==
    /\ m_options \in {Constructor(f).options : f \in FileSamples}
    /\ m_primitive_block = BlockNew
    /\ pool = <<>>
    /\ m_output_queue = <<>>
    /\ sink = <<>>
    /\ written = <<>>
    /\ early = {}
    /\ pc = "constructed"
    /\ waiting = NotWaiting
    /\ input = <<>>
    /\ calls = <<>>

\* a build with NDEBUG
Init ==
    /\ ndebug = TRUE
    /\ Constructed
    /\ NoVerboseOutput

(***************************************************************************)
(* Operations.  A call that submits a job goes on in output_queue_push     *)
(* once m_output_queue.push() has found room in the queue.                 *)
(***************************************************************************)

\* write_header(): build the HeaderBlock and submit it
write_header(header) ==
    /\ pc = "constructed"
    /\ waiting = NotWaiting
    /\ pool' = Submit(pool, HeaderBlob(m_options, header))
    /\ waiting' = [op |-> "write_header", future |-> Len(pool) + 1]
    /\ UNCHANGED <<m_options, ndebug, verbose_vars, calls, m_primitive_block,
                   m_output_queue, sink, written, early, pc, input>>

\* the asserts of add_node (version) and add_meta (version, uid): TRUE if
\* one of them fails for the entity
AssertFails(opts, e) ==
    \/ opts.add_metadata.version /\ e.meta.version > INT32_MAX
    \/ /\ GroupType(opts, e) # "dense"
       /\ opts.add_metadata.uid
       /\ e.meta.uid > INT32_MAX

\* the entity is put into the block b that switch_primitive_block_type
\* left; a failing assert ends the process
Put(b, e) ==
    IF ~ndebug /\ AssertFails(m_options, e)
    THEN /\ pc' = "aborted"
         /\ m_primitive_block' = b
         /\ UNCHANGED input
    ELSE /\ m_primitive_block' = AddEntity(b, m_options, e)
         /\ input' = Append(input, e)
         /\ UNCHANGED pc

\* a switch_primitive_block_type that resets a block without storing it
Handle_reset_unstored(e) ==
    LET b == m_primitive_block
        type == GroupType(m_options, e)
    IN  /\ pc = "open"
        /\ waiting = NotWaiting
        /\ Len(input) < MaxWrites
        /\ IF can_add(b, type) THEN Put(b, e) ELSE Put(reset(b, type), e)
        /\ UNCHANGED <<m_options, ndebug, verbose_vars, calls, m_output_queue,
                       sink, written, early, pool, waiting>>

\* node(), way(), relation(): switch_primitive_block_type, then the entity
\* is put into the block
Handle(e) ==
    LET b == m_primitive_block
        type == GroupType(m_options, e)
    IN  /\ pc = "open"
        /\ waiting = NotWaiting
        /\ Len(input) < MaxWrites
        /\ IF can_add(b, type)
           THEN /\ Put(b, e)
                /\ UNCHANGED <<pool, waiting>>
           ELSE IF b.count = 0
           THEN /\ Put(reset(b, type), e)
                /\ UNCHANGED <<pool, waiting>>
           ELSE /\ pool' = Submit(pool, DataBlob(b, m_options))
                /\ m_primitive_block' =
                       [b EXCEPT !.group_data = group_data(b, m_options)]
                /\ waiting' = [op |-> "switch", future |-> Len(pool) + 1,
                               entity |-> e]
                /\ UNCHANGED <<input, pc>>
        /\ UNCHANGED <<m_options, ndebug, verbose_vars, calls, m_output_queue,
                       sink, written, early>>

node(e) == e.kind = "node" /\ Handle(e)

way(e) == e.kind = "way" /\ Handle(e)

relation(e) == e.kind = "relation" /\ Handle(e)

\* a write_end whose store_primitive_block does not return early on an
\* empty block
write_end_store_empty ==
    LET b == m_primitive_block
    IN  /\ pc = "open"
        /\ waiting = NotWaiting
        /\ pool' = Submit(pool, DataBlob(b, m_options))
        /\ m_primitive_block' =
               [b EXCEPT !.group_data = group_data(b, m_options)]
        /\ waiting' = [op |-> "write_end", future |-> Len(pool) + 1]
        /\ UNCHANGED <<m_options, ndebug, verbose_vars, calls, m_output_queue,
                       sink, written, early, input, pc>>

\* write_end(): store_primitive_block
write_end ==
    LET b == m_primitive_block
    IN  /\ pc = "open"
        /\ waiting = NotWaiting
        /\ IF b.count = 0
           THEN /\ pc' = "closed"
                /\ UNCHANGED <<pool, m_primitive_block, waiting>>
           ELSE /\ pool' = Submit(pool, DataBlob(b, m_options))
                /\ m_primitive_block' =
                       [b EXCEPT !.group_data = group_data(b, m_options)]
                /\ waiting' = [op |-> "write_end", future |-> Len(pool) + 1]
                /\ UNCHANGED pc
        /\ UNCHANGED <<m_options, ndebug, verbose_vars, calls, m_output_queue,
                       sink, written, early, input>>

\* m_output_queue.push() returns: the future is in the queue and the
\* waiting call runs to its end
output_queue_push ==
    /\ pc # "aborted"
    /\ waiting # NotWaiting
    /\ Len(m_output_queue) < QueueCap
    /\ m_output_queue' = QueuePush(m_output_queue, waiting.future)
    /\ waiting' = NotWaiting
    /\ CASE waiting.op = "write_header" ->
              /\ pc' = "open"
              /\ UNCHANGED <<m_primitive_block, input>>
         [] waiting.op = "write_end" ->
              /\ pc' = "closed"
              /\ UNCHANGED <<m_primitive_block, input>>
         [] waiting.op = "switch" ->
              Put(reset(m_primitive_block,
                        GroupType(m_options, waiting.entity)),
                  waiting.entity)
    /\ UNCHANGED <<m_options, ndebug, verbose_vars, calls, pool, sink,
                   written, early>>

\* a job that holds a reference to the working block instead of a message
\* of its own: the pool thread serializes what the block holds by then
worker_reads_block(j) ==
    LET blob == IF pool[j].blob.blob_type = "data"
                THEN DataBlob(m_primitive_block, m_options)
                ELSE pool[j].blob
    IN  /\ pc # "aborted"
        /\ pool[j].result = NoResult
        /\ pool' = [pool EXCEPT ![j].blob = blob,
                                ![j].result = SerializeBlobCall(blob)]
        /\ early' = IF \E i \in 1..(j - 1) : pool[i].result = NoResult
                    THEN early \cup {j} ELSE early
        /\ UNCHANGED <<m_options, ndebug, verbose_vars, calls,
                       m_primitive_block, m_output_queue, sink, written,
                       waiting, input, pc>>

\* a pool thread runs job j
worker(j) ==
    /\ pc # "aborted"
    /\ pool[j].result = NoResult
    /\ IF ~ndebug /\ MsgLen(pool[j].blob) > max_uncompressed_blob_size
       THEN /\ pc' = "aborted"
            /\ UNCHANGED <<pool, early>>
       ELSE /\ pool' = [pool EXCEPT
                          ![j].result = SerializeBlobCall(pool[j].blob)]
            /\ early' = IF \E i \in 1..(j - 1) : pool[i].result = NoResult
                        THEN early \cup {j} ELSE early
            /\ UNCHANGED pc
    /\ UNCHANGED <<m_options, ndebug, verbose_vars, calls, m_primitive_block,
                   m_output_queue, sink, written, waiting, input>>

\* the future holds an exception
IsError(result) == "error" \in DOMAIN result

\* the writer thread has ended: the get() of a future it took threw
WriterStopped ==
    \E i \in 1..Len(written) : IsError(pool[written[i]].result)

\* a writer that goes on with the next future after one that threw
writer_skips_failed ==
    LET result == pool[Head(m_output_queue)].result
    IN  /\ pc # "aborted"
        /\ m_output_queue # <<>>
        /\ result # NoResult
        /\ sink' = IF IsError(result) THEN sink ELSE Append(sink, result)
        /\ written' = Append(written, Head(m_output_queue))
        /\ m_output_queue' = Tail(m_output_queue)
        /\ UNCHANGED <<m_options, ndebug, verbose_vars, calls,
                       m_primitive_block, pool, early, pc, waiting, input>>

\* a writer that takes the first future of the queue that is ready
writer_first_ready ==
    LET ready == {i \in 1..Len(m_output_queue) :
                     pool[m_output_queue[i]].result # NoResult}
        first == CHOOSE i \in ready : \A k \in ready : i <= k
    IN  /\ pc # "aborted"
        /\ ready # {}
        /\ sink' = Append(sink, pool[m_output_queue[first]].result)
        /\ written' = Append(written, m_output_queue[first])
        /\ m_output_queue' =
               SubSeq(m_output_queue, 1, first - 1)
                 \o SubSeq(m_output_queue, first + 1, Len(m_output_queue))
        /\ UNCHANGED <<m_options, ndebug, verbose_vars, calls,
                       m_primitive_block, pool, early, pc, waiting, input>>

\* a writer that waits until the queue is full before it takes a future
writer_when_full ==
    /\ pc # "aborted"
    /\ Len(m_output_queue) = QueueCap
    /\ pool[Head(m_output_queue)].result # NoResult
    /\ sink' = Append(sink, pool[Head(m_output_queue)].result)
    /\ written' = Append(written, Head(m_output_queue))
    /\ m_output_queue' = Tail(m_output_queue)
    /\ UNCHANGED <<m_options, ndebug, verbose_vars, calls, m_primitive_block,
                   pool, early, pc, waiting, input>>

\* the writer thread takes the first future of the queue once its result
\* is there and writes it; if the future holds an exception, get() throws,
\* nothing is written and the thread ends
writer ==
    LET result == pool[Head(m_output_queue)].result
    IN  /\ pc # "aborted"
        /\ ~WriterStopped
        /\ m_output_queue # <<>>
        /\ result # NoResult
        /\ sink' = IF IsError(result) THEN sink ELSE Append(sink, result)
        /\ written' = Append(written, Head(m_output_queue))
        /\ m_output_queue' = Tail(m_output_queue)
        /\ UNCHANGED <<m_options, ndebug, verbose_vars, calls,
                       m_primitive_block, pool, early, pc, waiting, input>>

Next ==
    \/ write_header(SampleHeader)
    \/ \E e \in Entities : node(e)
    \/ \E e \in Entities : way(e)
    \/ \E e \in Entities : relation(e)
    \/ write_end
    \/ output_queue_push
    \/ \E j \in 1..Len(pool) : worker(j)
    \/ writer

Spec == Init /\ [][Next]_vars

(***************************************************************************)
(* A reader of the blobs: what a conformant decoder recovers from a        *)
(* PrimitiveBlock message, to state what the output holds.                 *)
(***************************************************************************)

\* the string an index denotes in the string table of the block
StGet(st, idx) == st[idx + 1]

\* what a decoder is to recover of an entity: tags, the metadata the options
\* keep (the user as a string), coordinates at the granularity
Normalize(opts, e) ==
    [kind |-> e.kind, id |-> e.id, tags |-> e.tags,
     info |-> [f \in InfoFields(opts) |->
                 CASE f = "version" -> e.meta.version
                   [] f = "timestamp" -> e.meta.timestamp
                   [] f = "changeset" -> e.meta.changeset
                   [] f = "uid" -> e.meta.uid
                   [] f = "user_sid" -> e.meta.user
                   [] f = "visible" -> e.meta.visible],
     body |->
        CASE e.kind = "node" ->
               [lat |-> lonlat2int(e.location.y),
                lon |-> lonlat2int(e.location.x)]
          [] e.kind = "way" ->
               [refs |-> [i \in 1..Len(e.nodes) |-> e.nodes[i].ref],
                lons |-> IF opts.locations_on_ways
                         THEN [i \in 1..Len(e.nodes) |->
                                  lonlat2int(e.nodes[i].location.x)]
                         ELSE <<>>,
                lats |-> IF opts.locations_on_ways
                         THEN [i \in 1..Len(e.nodes) |->
                                  lonlat2int(e.nodes[i].location.y)]
                         ELSE <<>>]
          [] e.kind = "relation" ->
               [members |->
                  [i \in 1..Len(e.members) |->
                      [type |-> ItemTypeValue(e.members[i].type) - 1,
                       ref |-> e.members[i].ref,
                       role |-> e.members[i].role]]]]

\* keys, vals and Info of a Node, Way or Relation message, decoded
DecodeTags(st, m) ==
    [i \in 1..Len(m.keys) |-> <<StGet(st, m.keys[i]), StGet(st, m.vals[i])>>]

DecodeInfo(st, info) ==
    [f \in DOMAIN info |->
        IF f = "user_sid" THEN StGet(st, info[f]) ELSE info[f]]

\* one field of a PrimitiveGroup that holds a Node, Way or Relation
DecodeField(st, f) ==
    [kind |-> CASE f.field = "nodes" -> "node"
                [] f.field = "ways" -> "way"
                [] f.field = "relations" -> "relation",
     id |-> f.msg.id,
     tags |-> DecodeTags(st, f.msg.meta),
     info |-> DecodeInfo(st, f.msg.meta.info),
     body |->
        CASE f.field = "nodes" -> [lat |-> f.msg.lat, lon |-> f.msg.lon]
          [] f.field = "ways" ->
               [refs |-> PrefixSums(f.msg.refs),
                lons |-> PrefixSums(f.msg.lons),
                lats |-> PrefixSums(f.msg.lats)]
          [] f.field = "relations" ->
               [members |->
                  [i \in 1..Len(f.msg.memids) |->
                      [type |-> f.msg.types[i],
                       ref |-> PrefixSums(f.msg.memids)[i],
                       role |-> StGet(st, f.msg.roles_sid[i])]]]]

\* keys_vals of a DenseNodes message: the position of the 0 that ends the
\* tags of the node whose tags start at position start
DenseTagsEnd(kv, start) ==
    CHOOSE p \in start..Len(kv) :
        /\ (p - start) % 2 = 0
        /\ kv[p] = 0
        /\ \A q \in start..(p - 1) : (q - start) % 2 = 0 => kv[q] # 0

\* the start positions in keys_vals of the tags of the first n nodes
RECURSIVE DenseTagStarts(_, _, _)
DenseTagStarts(kv, start, n) ==
    IF n = 0 THEN <<>>
    ELSE <<start>> \o DenseTagStarts(kv, DenseTagsEnd(kv, start) + 1, n - 1)

\* the nodes of a DenseNodes message
DecodeDense(st, m) ==
    LET n == Len(m.ids)
        ids == PrefixSums(m.ids)
        lats == PrefixSums(m.lats)
        lons == PrefixSums(m.lons)
        timestamps == PrefixSums(m.timestamps)
        changesets == PrefixSums(m.changesets)
        uids == PrefixSums(m.uids)
        user_sids == PrefixSums(m.user_sids)
        starts == DenseTagStarts(m.keys_vals, 1, n)
        fields == (IF m.versions # <<>> THEN {"version"} ELSE {})
                    \cup (IF m.timestamps # <<>> THEN {"timestamp"} ELSE {})
                    \cup (IF m.changesets # <<>> THEN {"changeset"} ELSE {})
                    \cup (IF m.uids # <<>> THEN {"uid"} ELSE {})
                    \cup (IF m.user_sids # <<>> THEN {"user_sid"} ELSE {})
                    \cup (IF m.visibles # <<>> THEN {"visible"} ELSE {})
    IN  [i \in 1..n |->
            [kind |-> "node", id |-> ids[i],
             tags |->
                [t \in 1..((DenseTagsEnd(m.keys_vals, starts[i]) - starts[i])
                             \div 2) |->
                    <<StGet(st, m.keys_vals[starts[i] + 2 * (t - 1)]),
                      StGet(st, m.keys_vals[starts[i] + 2 * (t - 1) + 1])>>],
             info |->
                [f \in fields |->
                    CASE f = "version" -> m.versions[i]
                      [] f = "timestamp" -> timestamps[i]
                      [] f = "changeset" -> changesets[i]
                      [] f = "uid" -> uids[i]
                      [] f = "user_sid" -> StGet(st, user_sids[i])
                      [] f = "visible" -> m.visibles[i]],
             body |-> [lat |-> lats[i], lon |-> lons[i]]]]

\* the entities of one PrimitiveBlock message, group field by group field
RECURSIVE DecodeGroup(_, _)
DecodeGroup(st, g) ==
    IF g = <<>> THEN <<>>
    ELSE (IF Head(g).field = "dense" THEN DecodeDense(st, Head(g).msg)
          ELSE <<DecodeField(st, Head(g))>>)
           \o DecodeGroup(st, Tail(g))

DecodeBlock(msg) == DecodeGroup(msg.stringtable, msg.primitivegroup)

\* the message a Blob holds
BlobMsg(blob) ==
    IF "raw" \in DOMAIN blob THEN blob.raw
    ELSE IF "zlib_data" \in DOMAIN blob THEN blob.zlib_data.of
    ELSE blob.lz4_data.of

\* the entities of the OSMData blobs of a sequence of blobs, in order
RECURSIVE DecodeBlobs(_)
DecodeBlobs(blobs) ==
    IF blobs = <<>> THEN <<>>
    ELSE (IF Head(blobs).type = "OSMData"
          THEN DecodeBlock(BlobMsg(Head(blobs).blob)) ELSE <<>>)
           \o DecodeBlobs(Tail(blobs))

\* the data jobs submitted so far, in submission order
DataJobs == {j \in 1..Len(pool) : pool[j].blob.blob_type = "data"}

\* everything submitted has been written
Drained == m_output_queue = <<>> /\ waiting = NotWaiting /\ Len(sink) = Len(pool)

\* the entities one PrimitiveBlock message holds
RECURSIVE GroupCount(_)
GroupCount(g) ==
    IF g = <<>> THEN 0
    ELSE (IF Head(g).field = "dense" THEN Len(Head(g).msg.ids) ELSE 1)
           + GroupCount(Tail(g))

JobCount(j) == GroupCount(pool[j].blob.msg.primitivegroup)

\* the entities the working block holds
Held(b) ==
    IF b.dense_nodes # NoDense THEN Len(b.dense_nodes.ids)
    ELSE Len(b.group_data)

\* the kind of entity a group type holds
KindOf(type) ==
    CASE type \in {"dense", "nodes"} -> "node"
      [] type = "ways" -> "way"
      [] type = "relations" -> "relation"
      [] OTHER -> "none"

(***************************************************************************)
(* C1: the blobs reach the sink in the order the jobs were submitted, for  *)
(* every interleaving of the workers: the futures written, those in the    *)
(* queue and the one being pushed are the jobs 1, 2, 3, ... in submission  *)
(* order, and the i-th blob written is the result of the i-th job          *)
(* submitted, also when a later job was done first.                        *)
(***************************************************************************)
C1_SubmissionOrder ==
    LET pushed == written \o m_output_queue
        all == IF waiting = NotWaiting THEN pushed
               ELSE Append(pushed, waiting.future)
    IN  /\ all = [i \in 1..Len(pool) |-> i]
        /\ Len(sink) = Len(written)
        /\ \A i \in 1..Len(sink) : sink[i] = SerializeBlobCall(pool[i].blob)

\* a job that was done before a job submitted earlier has been written
C1_Witness ==
    \E j \in early : j <= Len(written) /\ Len(sink) >= j

(***************************************************************************)
(* C3: the first blob of the output has type "OSMHeader" and every later   *)
(* blob has type "OSMData"; the first future pushed on the output queue is *)
(* that of the header job and every later one that of a data job.          *)
(***************************************************************************)
C3_HeaderFirst ==
    /\ \A i \in 1..Len(sink) :
          sink[i].type = IF i = 1 THEN "OSMHeader" ELSE "OSMData"
    /\ \A i \in 1..Len(written \o m_output_queue) :
          pool[(written \o m_output_queue)[i]].blob.blob_type
              = IF i = 1 THEN "header" ELSE "data"

\* a header and at least one data blob have been written
C3_Witness ==
    /\ Len(sink) >= 2
    /\ sink[1].type = "OSMHeader"
    /\ sink[2].type = "OSMData"

(***************************************************************************)
(* C4: every field of the group data of the working block is of the type   *)
(* of the block, DenseNodes are held only by a block of type dense, and    *)
(* every PrimitiveGroup submitted holds fields of one type only, whose     *)
(* entities are all of one kind.                                           *)
(***************************************************************************)
C4_OneKindPerBlock ==
    LET b == m_primitive_block
    IN  /\ \A i \in 1..Len(b.group_data) : b.group_data[i].field = b.type
        /\ b.dense_nodes # NoDense => b.type = "dense"
        /\ b.count > 0 => b.type # "unknown"
        /\ \A j \in DataJobs :
              LET g == pool[j].blob.msg.primitivegroup
                  es == DecodeBlock(pool[j].blob.msg)
              IN  /\ \A i \in 1..Len(g) : g[i].field = g[1].field
                  /\ \A i \in 1..Len(es) : es[i].kind = KindOf(g[1].field)

\* blocks of two kinds have been submitted and the working block holds an
\* entity of a third group type
C4_Witness ==
    /\ \E j, k \in DataJobs :
          pool[j].blob.msg.primitivegroup[1].field
              # pool[k].blob.msg.primitivegroup[1].field
    /\ m_primitive_block.count > 0
    /\ \A j \in DataJobs :
          pool[j].blob.msg.primitivegroup[1].field # m_primitive_block.type

(***************************************************************************)
(* C5: the count of the working block is at most max_entities_per_block    *)
(* and is the number of entities the block holds; no block submitted holds *)
(* more than max_entities_per_block entities.                              *)
(***************************************************************************)
C5_CountBounded ==
    /\ m_primitive_block.count <= max_entities_per_block
    /\ m_primitive_block.count = Held(m_primitive_block)
    /\ \A j \in DataJobs : JobCount(j) <= max_entities_per_block

\* a full block has been submitted and the entity that did not fit has
\* started the next block
C5_Witness ==
    /\ waiting = NotWaiting
    /\ m_primitive_block.count = 1
    /\ Len(input) = max_entities_per_block + 1
    /\ \E j \in DataJobs : JobCount(j) = max_entities_per_block

(***************************************************************************)
(* C6, as stated: in every state the size estimate of the working block is *)
(* strictly below max_used_blob_size.                                      *)
(***************************************************************************)
C6_AsStated == size(m_primitive_block) < max_used_blob_size

(***************************************************************************)
(* C6: an entity is added to the working block only while the size         *)
(* estimate of the block is strictly below max_used_blob_size: the         *)
(* estimate is looked at before the entity is added, so it is only the     *)
(* entity added last that can take it to the cap or beyond.                *)
(***************************************************************************)
C6_BelowCapBeforeAdd ==
    [][m_primitive_block'.count = m_primitive_block.count + 1
          => size(m_primitive_block) < max_used_blob_size]_vars

\* the entity added last took the estimate of a block that is not full to
\* the cap or beyond, and the block was submitted for the next entity
C6_Witness ==
    /\ size(m_primitive_block) >= max_used_blob_size
    /\ m_primitive_block.count >= 1
    /\ m_primitive_block.count < max_entities_per_block
    /\ waiting # NotWaiting
    /\ waiting.op = "switch"
    /\ GroupType(m_options, waiting.entity) = m_primitive_block.type

(***************************************************************************)
(* C7, as stated: the message of every job submitted is at most            *)
(* max_uncompressed_blob_size bytes long, which is what the assertion of   *)
(* SerializeBlob::operator() asks for.                                     *)
(***************************************************************************)
C7_PayloadWithinLimit ==
    \A j \in 1..Len(pool) : MsgLen(pool[j].blob) <= max_uncompressed_blob_size

(***************************************************************************)
(* C8, as stated: once a call that submitted the working block has         *)
(* returned, the block is reset: count 0, no group data, no DenseNodes, a  *)
(* string table that holds the empty entry only.                           *)
(***************************************************************************)
C8_ResetAfterFlush ==
    (pc = "closed" /\ waiting = NotWaiting) =>
        /\ m_primitive_block.count = 0
        /\ m_primitive_block.group_data = <<>>
        /\ m_primitive_block.dense_nodes = NoDense
        /\ m_primitive_block.stringtable = StClear

(***************************************************************************)
(* C2: after write_header, the writes and one write_end, with everything   *)
(* submitted written, the entities of the OSMData blobs of the sink, read  *)
(* blob by blob in the order written, are the entities written, each once  *)
(* and in the order of the input.                                          *)
(***************************************************************************)
C2_EntitiesPreserved ==
    (pc = "closed" /\ Drained) =>
        DecodeBlobs(sink)
            = [i \in 1..Len(input) |-> Normalize(m_options, input[i])]

\* a closed output of several data blobs, one of them of several entities
C2_Witness ==
    /\ pc = "closed"
    /\ Drained
    /\ Len(input) = MaxWrites
    /\ Cardinality(DataJobs) >= 2
    /\ \E j \in DataJobs : JobCount(j) >= 2
    /\ Len(DecodeBlobs(sink)) = MaxWrites

\* the position in the input of the first entity of data job j
FirstOf(j) ==
    1 + SumSeq([i \in 1..(j - 1) |->
                  IF i \in DataJobs THEN JobCount(i) ELSE 0])

\* the DenseNodes messages submitted: job and message
DenseJobs ==
    {j \in DataJobs : pool[j].blob.msg.primitivegroup[1].field = "dense"}

(***************************************************************************)
(* C9: in every DenseNodes message submitted, the first element of ids,    *)
(* lats, lons and of the delta encoded columns of DenseInfo (timestamp,    *)
(* changeset, uid, user_sid) is the value itself of the first node of the  *)
(* block, whatever the block before held.                                  *)
(***************************************************************************)
C9_DeltaFromZero ==
    \A j \in DenseJobs :
        LET m == pool[j].blob.msg.primitivegroup[1].msg
            st == pool[j].blob.msg.stringtable
            e == input[FirstOf(j)]
        IN  /\ m.ids[1] = e.id
            /\ m.lats[1] = lonlat2int(e.location.y)
            /\ m.lons[1] = lonlat2int(e.location.x)
            /\ m.timestamps # <<>> => m.timestamps[1] = e.meta.timestamp
            /\ m.changesets # <<>> => m.changesets[1] = e.meta.changeset
            /\ m.uids # <<>> => m.uids[1] = e.meta.uid
            /\ m.user_sids # <<>> => StGet(st, m.user_sids[1]) = e.meta.user

\* a DenseNodes block with metadata was submitted after another one whose
\* last node has another id
C9_Witness ==
    \E j, k \in DenseJobs :
        /\ j < k
        /\ pool[k].blob.msg.primitivegroup[1].msg.timestamps # <<>>
        /\ input[FirstOf(k)].id # input[FirstOf(k) - 1].id
        /\ input[FirstOf(k) - 1].id # 0

\* the size estimate the block of data job j had when it was submitted
JobEstimate(j) ==
    LET msg == pool[j].blob.msg
        g == msg.primitivegroup
    IN  StSize(msg.stringtable)
          + SumSeq([i \in 1..Len(g) |->
                      IF g[i].field = "dense"
                      THEN Len(g[i].msg.ids) * 3 * SizeofInt64
                      ELSE GroupFieldLen(g[i])])

(***************************************************************************)
(* C10: when the n entities written all go to one group type and no block  *)
(* reached max_used_blob_size in its size estimate, the closed output has  *)
(* ceil(n / max_entities_per_block) data blobs, and every one but the last *)
(* holds max_entities_per_block entities.                                  *)
(***************************************************************************)
C10_BlobCount ==
    (/\ pc = "closed"
     /\ waiting = NotWaiting
     /\ \A i \in 1..Len(input) :
           GroupType(m_options, input[i]) = GroupType(m_options, input[1])
     /\ \A j \in DataJobs : JobEstimate(j) < max_used_blob_size)
    => /\ Cardinality(DataJobs)
            = (Len(input) + max_entities_per_block - 1)
                 \div max_entities_per_block
       /\ \A j \in DataJobs :
             j < Len(pool) => JobCount(j) = max_entities_per_block

\* one entity more than a block takes, all of one group type, went to a
\* full block and a block of one entity
C10_Witness ==
    /\ pc = "closed"
    /\ waiting = NotWaiting
    /\ Len(input) = max_entities_per_block + 1
    /\ \A i \in 1..Len(input) :
          GroupType(m_options, input[i]) = GroupType(m_options, input[1])
    /\ \A j \in DataJobs : JobEstimate(j) < max_used_blob_size
    /\ Cardinality(DataJobs) = 2
    /\ JobCount(Len(pool)) = 1

(***************************************************************************)
(* C11: store_primitive_block submits nothing for a block of count 0:      *)
(* every data job submitted holds at least one entity, and an output that  *)
(* was closed with no entity written is the one job of the header.         *)
(***************************************************************************)
C11_NoEmptyBlock ==
    /\ \A j \in DataJobs : JobCount(j) >= 1
    /\ (pc = "closed" /\ input = <<>>) =>
          /\ Len(pool) = 1
          /\ pool[1].blob.blob_type = "header"
          /\ \A i \in 1..Len(sink) : sink[i].type = "OSMHeader"

\* header, no entity, write_end: the sink holds the header blob only
C11_Witness ==
    /\ pc = "closed"
    /\ input = <<>>
    /\ Drained
    /\ Len(sink) = 1
    /\ sink[1].type = "OSMHeader"

\* the positions in the input at which a block starts: the first entity of
\* each block submitted and of the working block not yet submitted
BlockStarts ==
    {FirstOf(j) : j \in DataJobs}
        \cup (IF pc = "open" /\ waiting = NotWaiting
                 /\ m_primitive_block.count > 0
              THEN {Len(input) - m_primitive_block.count + 1} ELSE {})

(***************************************************************************)
(* C12: an entity that follows an entity of another kind starts a new      *)
(* block; when no two consecutive entities written are of the same kind,   *)
(* every data job submitted holds one entity, and the k-th data job holds  *)
(* an entity of the kind of the k-th entity written.                       *)
(***************************************************************************)
C12_KindChangeStartsBlock ==
    /\ LET starts == BlockStarts
       IN  \A i \in 1..(Len(input) - 1) :
              input[i].kind # input[i + 1].kind => (i + 1) \in starts
    /\ (\A i \in 1..(Len(input) - 1) : input[i].kind # input[i + 1].kind)
          => \A j \in DataJobs :
                /\ JobCount(j) = 1
                /\ DecodeBlock(pool[j].blob.msg)[1].kind
                      = input[FirstOf(j)].kind
                /\ FirstOf(j) = j - 1

\* three entities of alternating kinds went to three blocks of one entity
C12_Witness ==
    /\ pc = "closed"
    /\ Len(input) = 3
    /\ input[1].kind # input[2].kind
    /\ input[2].kind # input[3].kind
    /\ Cardinality(DataJobs) = 3
    /\ \A j \in DataJobs : JobCount(j) = 1

\* the strings of an entity that go to a string table: tag keys and values,
\* the user name, the roles of the members
StringsOf(e) ==
    {e.tags[i][1] : i \in 1..Len(e.tags)}
        \cup {e.tags[i][2] : i \in 1..Len(e.tags)}
        \cup {e.meta.user}
        \cup {e.members[i].role : i \in 1..Len(e.members)}

\* the strings a caller hands to the string table, the empty string included
UserStrings == {""} \cup UNION {StringsOf(e) : e \in Entities}

\* entry 0 of a string table is the empty string
EmptyFirst(st) == Len(st) >= 1 /\ st[1] = ""

(***************************************************************************)
(* C13: entry 0 of the string table of the working block and of every      *)
(* block submitted is the empty string, and whatever string is added to    *)
(* the table of the working block, the empty string included, add()        *)
(* returns an index of 1 or more for it and leaves entry 0 as it is.       *)
(***************************************************************************)
C13_IndexZeroReserved ==
    /\ EmptyFirst(m_primitive_block.stringtable)
    /\ \A j \in DataJobs : EmptyFirst(pool[j].blob.msg.stringtable)
    /\ \A s \in UserStrings :
          LET st == StAdd(m_primitive_block.stringtable, s)
          IN  StIndex(st, s) >= 1 /\ EmptyFirst(st)

\* after a reset the empty string was added as the role of a member and is
\* held at an index of 1 or more, entry 0 being the empty entry
C13_Witness ==
    /\ DataJobs # {}
    /\ waiting = NotWaiting
    /\ m_primitive_block.type = "relations"
    /\ \E i \in 2..Len(m_primitive_block.stringtable) :
          m_primitive_block.stringtable[i] = ""
    /\ m_primitive_block.group_data[1].msg.roles_sid[3] >= 1
    /\ m_primitive_block.stringtable[1] = ""

(***************************************************************************)
(* The string table of the working block on its own: any sequence of       *)
(* store_in_stringtable() and reset() calls on a new PrimitiveBlock.       *)
(***************************************************************************)

\* PrimitiveBlock::store_in_stringtable(s): m_stringtable.add(s), the index
\* is returned
store_in_stringtable(s) ==
    LET st == StAdd(m_primitive_block.stringtable, s)
    IN  /\ Len(calls) < MaxCalls
        /\ m_primitive_block' = [m_primitive_block EXCEPT !.stringtable = st]
        /\ calls' = Append(calls, [op |-> "store_in_stringtable", arg |-> s,
                                   ret |-> StIndex(st, s)])
        /\ UNCHANGED <<m_options, ndebug, verbose_vars, pool, m_output_queue,
                       sink, written, early, pc, waiting, input>>

\* PrimitiveBlock::reset(type) called on the block
reset_call(type) ==
    /\ Len(calls) < MaxCalls
    /\ m_primitive_block' = reset(m_primitive_block, type)
    /\ calls' = Append(calls, [op |-> "reset", arg |-> type, ret |-> 0])
    /\ UNCHANGED <<m_options, ndebug, verbose_vars, pool, m_output_queue,
                   sink, written, early, pc, waiting, input>>

NextStringTable ==
    \/ \E s \in UserStrings : store_in_stringtable(s)
    \/ \E type \in {"dense", "nodes", "ways", "relations"} : reset_call(type)

SpecStringTable == Init /\ [][NextStringTable]_vars

\* the calls of store_in_stringtable made since the last reset
SinceReset ==
    {i \in 1..Len(calls) :
        /\ calls[i].op = "store_in_stringtable"
        /\ \A j \in i..Len(calls) : calls[j].op # "reset"}

(***************************************************************************)
(* C14: of the calls of add() made on a block since its last reset, two    *)
(* calls with the same string returned the same index, two calls with      *)
(* different strings returned different indices, every index returned      *)
(* still denotes the string it was returned for, and the table holds one   *)
(* entry for each different string added, besides the empty entry.         *)
(***************************************************************************)
C14_AddIdempotentInjective ==
    LET st == m_primitive_block.stringtable
    IN  /\ \A i, j \in SinceReset :
              (calls[i].arg = calls[j].arg) <=> (calls[i].ret = calls[j].ret)
        /\ \A i \in SinceReset :
              /\ calls[i].ret + 1 \in 1..Len(st)
              /\ StGet(st, calls[i].ret) = calls[i].arg
        /\ Len(st) = 1 + Cardinality({calls[i].arg : i \in SinceReset})

\* since the last reset a string was added twice, with another string
\* added in between
C14_Witness ==
    \E i, j, k \in SinceReset :
        /\ i < j
        /\ j < k
        /\ calls[i].arg = calls[k].arg
        /\ calls[i].arg # calls[j].arg
        /\ calls[i].ret = calls[k].ret
        /\ Len(m_primitive_block.stringtable) = 3
        /\ \E r \in 1..Len(calls) : calls[r].op = "reset"

\* index idx is one of string table st and denotes string str there
Denotes(st, idx, str) == idx \in 1..(Len(st) - 1) /\ st[idx + 1] = str

\* the entities of data job j, as they were written
EntitiesOf(j) == SubSeq(input, FirstOf(j), FirstOf(j) + JobCount(j) - 1)

\* the position in keys_vals of the first tag index of the i-th node of es
TagStart(es, i) ==
    1 + SumSeq([k \in 1..(i - 1) |-> 2 * Len(es[k].tags) + 1])

\* the string indices of a Node, Way or Relation message denote the strings
\* of entity e in string table st
FieldIndicesDenote(st, f, e) ==
    /\ Len(f.msg.meta.keys) = Len(e.tags)
    /\ Len(f.msg.meta.vals) = Len(e.tags)
    /\ \A t \in 1..Len(e.tags) :
          /\ Denotes(st, f.msg.meta.keys[t], e.tags[t][1])
          /\ Denotes(st, f.msg.meta.vals[t], e.tags[t][2])
    /\ "user_sid" \in DOMAIN f.msg.meta.info
          => Denotes(st, f.msg.meta.info["user_sid"], e.meta.user)
    /\ f.field = "relations" =>
          /\ Len(f.msg.roles_sid) = Len(e.members)
          /\ \A k \in 1..Len(e.members) :
                Denotes(st, f.msg.roles_sid[k], e.members[k].role)

\* the string indices of a DenseNodes message denote the strings of the
\* nodes es in string table st
DenseIndicesDenote(st, m, es) ==
    /\ m.user_sids # <<>> =>
          LET sids == PrefixSums(m.user_sids)
          IN  /\ Len(sids) = Len(es)
              /\ \A i \in 1..Len(es) :
                    Denotes(st, sids[i], es[i].meta.user)
    /\ Len(m.keys_vals) = TagStart(es, Len(es) + 1) - 1
    /\ \A i \in 1..Len(es) :
          LET start == TagStart(es, i)
          IN  /\ \A t \in 1..Len(es[i].tags) :
                    /\ Denotes(st, m.keys_vals[start + 2 * (t - 1)],
                               es[i].tags[t][1])
                    /\ Denotes(st, m.keys_vals[start + 2 * (t - 1) + 1],
                               es[i].tags[t][2])
              /\ m.keys_vals[start + 2 * Len(es[i].tags)] = 0

(***************************************************************************)
(* C15: in every block submitted, every string index written (keys, vals,  *)
(* user_sid, roles_sid, the user_sids of DenseInfo once delta decoded, the *)
(* tag indices of keys_vals) is an index of the string table of that same  *)
(* block and denotes there the string of the entity it was written for.    *)
(***************************************************************************)
C15_IndicesResolve ==
    \A j \in DataJobs :
        LET st == pool[j].blob.msg.stringtable
            g == pool[j].blob.msg.primitivegroup
            es == EntitiesOf(j)
        IN  IF g[1].field = "dense"
            THEN DenseIndicesDenote(st, g[1].msg, es)
            ELSE /\ Len(g) = Len(es)
                 /\ \A i \in 1..Len(g) : FieldIndicesDenote(st, g[i], es[i])

\* two blocks were submitted in which one index denotes different strings
C15_Witness ==
    \E j, k \in DataJobs :
        /\ j < k
        /\ Len(pool[j].blob.msg.stringtable) >= 2
        /\ Len(pool[k].blob.msg.stringtable) >= 2
        /\ pool[j].blob.msg.stringtable[2] # pool[k].blob.msg.stringtable[2]

\* the nodes the DenseNodes of the working block hold, as they were written
HeldNodes ==
    SubSeq(input, Len(input) - m_primitive_block.count + 1, Len(input))

\* the columns of a DenseNodes message all hold n elements, those of the
\* metadata that is off none
DenseColumnsOf(m, opts, n) ==
    /\ Len(m.ids) = n
    /\ Len(m.lats) = n
    /\ Len(m.lons) = n
    /\ Len(m.versions) = IF opts.add_metadata.version THEN n ELSE 0
    /\ Len(m.timestamps) = IF opts.add_metadata.timestamp THEN n ELSE 0
    /\ Len(m.changesets) = IF opts.add_metadata.changeset THEN n ELSE 0
    /\ Len(m.uids) = IF opts.add_metadata.uid THEN n ELSE 0
    /\ Len(m.user_sids) = IF opts.add_metadata.user THEN n ELSE 0
    /\ Len(m.visibles) = IF opts.add_visible_flag THEN n ELSE 0
    /\ Cardinality({p \in 1..Len(m.keys_vals) : m.keys_vals[p] = 0}) = n

(***************************************************************************)
(* C16: whatever nodes were added to the DenseNodes of the working block,  *)
(* ids, lats, lons and every DenseInfo column that is on hold one element  *)
(* per node, keys_vals holds one 0 per node, after the tag indices of the  *)
(* node, and splitting keys_vals at the zeros gives the tags of each node; *)
(* the same lengths hold in every DenseNodes message submitted.            *)
(***************************************************************************)
C16_DenseColumnsAligned ==
    /\ m_primitive_block.dense_nodes # NoDense =>
          LET m == DenseSerialize(m_primitive_block.dense_nodes, m_options)
              es == HeldNodes
              n == m_primitive_block.count
          IN  /\ DenseColumnsOf(m, m_options, n)
              /\ \A i \in 1..n :
                    LET start == TagStart(es, i)
                        end == start + 2 * Len(es[i].tags)
                    IN  /\ \A p \in start..(end - 1) : m.keys_vals[p] # 0
                        /\ m.keys_vals[end] = 0
              /\ LET dec == DecodeDense(m_primitive_block.stringtable, m)
                 IN  [i \in 1..n |-> dec[i].tags] = [i \in 1..n |-> es[i].tags]
    /\ \A j \in DenseJobs :
          DenseColumnsOf(pool[j].blob.msg.primitivegroup[1].msg, m_options,
                         JobCount(j))

\* the DenseNodes hold a node with many tags and a node without tags, with
\* the metadata columns on
C16_Witness ==
    /\ m_primitive_block.dense_nodes # NoDense
    /\ m_primitive_block.count = 2
    /\ m_options.add_metadata.user
    /\ HeldNodes[1].tags = <<>>
    /\ Len(HeldNodes[2].tags) = MaxTags
    /\ Len(m_primitive_block.dense_nodes.tags) = 2 * MaxTags + 2

(***************************************************************************)
(* Values out of the range of int32_t, failing asserts and exceptions.     *)
(* SpecErrors runs the operations of Spec in both builds, on entities      *)
(* whose version, uid and timestamp lie above INT32_MAX, and lets an       *)
(* allocation made while an entity is put into the block throw.            *)
(***************************************************************************)

\* a uid above INT32_MAX; no difference of two sample uids, taken in
\* int32_t, leaves int32_t, so that the subtraction of DeltaEncode is
\* defined for all of them
WideUid == INT32_MAX + 36

\* a timestamp above INT32_MAX, within uint32_t
WideTimestamp == INT32_MAX + 7

WideVersion == INT32_MAX + 2

WideUidNode ==
    [Node(5, NoTags) EXCEPT !.meta.uid = WideUid,
                            !.meta.timestamp = WideTimestamp]

WideVersionNode == [Node(5, NoTags) EXCEPT !.meta.version = WideVersion]

WideUidWay ==
    [kind |-> "way", id |-> 10,
     meta |-> [Meta(1) EXCEPT !.uid = WideUid],
     tags |-> <<>>, location |-> [x |-> 0, y |-> 0],
     nodes |-> << [ref |-> 100, location |-> [x |-> 130, y |-> 270]],
                  [ref |-> 99, location |-> [x |-> 0, y |-> 0]] >>,
     members |-> <<>>]

ErrorEntities ==
    {Node(1, NoTags), Node(5, ManyTags), WideUidNode, WideVersionNode,
     WideUidWay} \cup RelationSamples

\* version or uid is written and lies above INT32_MAX
OutOfRange(opts, e) ==
    \/ opts.add_metadata.version /\ e.meta.version > INT32_MAX
    \/ opts.add_metadata.uid /\ e.meta.uid > INT32_MAX

\* the block when the second allocation made for the entity throws: in
\* add_node m_ids.push_back has run, in the other handlers group() has
\* counted the entity and nothing was written to the group data yet
PartlyAdded(b, e) ==
    IF GroupType(m_options, e) = "dense"
    THEN LET dn == IF b.dense_nodes = NoDense THEN DenseNew
                   ELSE b.dense_nodes
         IN  [b EXCEPT
               !.dense_nodes =
                   [dn EXCEPT !.ids = Append(@, DeltaUpdate(dn.delta_id, e.id)),
                              !.delta_id = e.id]]
    ELSE [b EXCEPT !.count = @ + 1]

\* node(), way(), relation() on a block that takes the entity: an
\* allocation throws and the exception leaves the handler
Throws(e) ==
    LET b == m_primitive_block
    IN  /\ pc = "open"
        /\ waiting = NotWaiting
        /\ Len(input) < MaxWrites
        /\ can_add(b, GroupType(m_options, e))
        /\ m_primitive_block' = PartlyAdded(b, e)
        /\ pc' = "failed"
        /\ UNCHANGED <<m_options, ndebug, verbose_vars, calls, pool,
                       m_output_queue, sink, written, early, waiting, input>>

InitErrors ==
    /\ ndebug \in BOOLEAN
    /\ Constructed
    /\ NoVerboseOutput

NextErrors ==
    \/ write_header(SampleHeader)
    \/ \E e \in ErrorEntities : node(e)
    \/ \E e \in ErrorEntities : way(e)
    \/ \E e \in ErrorEntities : relation(e)
    \/ \E e \in ErrorEntities : Throws(e)
    \/ write_end
    \/ output_queue_push
    \/ \E j \in 1..Len(pool) : worker(j)
    \/ writer

SpecErrors == InitErrors /\ [][NextErrors]_vars

\* the delta encoded columns of a DenseNodes message give back, summed up
\* from zero, the values of the nodes es
DenseRoundTrip(st, m, es) ==
    /\ PrefixSums(m.ids) = [i \in 1..Len(es) |-> es[i].id]
    /\ PrefixSums(m.lats)
         = [i \in 1..Len(es) |-> lonlat2int(es[i].location.y)]
    /\ PrefixSums(m.lons)
         = [i \in 1..Len(es) |-> lonlat2int(es[i].location.x)]
    /\ m_options.add_metadata.timestamp =>
          PrefixSums(m.timestamps)
            = [i \in 1..Len(es) |-> es[i].meta.timestamp]
    /\ m_options.add_metadata.changeset =>
          PrefixSums(m.changesets)
            = [i \in 1..Len(es) |-> es[i].meta.changeset]
    /\ m_options.add_metadata.uid =>
          PrefixSums(m.uids) = [i \in 1..Len(es) |-> es[i].meta.uid]
    /\ m_options.add_metadata.user =>
          /\ Len(m.user_sids) = Len(es)
          /\ \A i \in 1..Len(es) :
                Denotes(st, PrefixSums(m.user_sids)[i], es[i].meta.user)

(***************************************************************************)
(* C17, as stated: in every block submitted, the prefix sums from zero of  *)
(* each delta encoded stream (ids, lats, lons, timestamps, changesets,     *)
(* uids and user_sids of DenseNodes, refs of a Way, memids of a Relation)  *)
(* are the values of the entities written, uids and timestamps above       *)
(* INT32_MAX included.                                                     *)
(***************************************************************************)
C17_DeltaRoundTrip ==
    \A j \in DataJobs :
        LET st == pool[j].blob.msg.stringtable
            g == pool[j].blob.msg.primitivegroup
            es == EntitiesOf(j)
        IN  IF g[1].field = "dense"
            THEN DenseRoundTrip(st, g[1].msg, es)
            ELSE \A i \in 1..Len(g) :
                    /\ g[i].field = "ways" =>
                          PrefixSums(g[i].msg.refs)
                            = [k \in 1..Len(es[i].nodes) |->
                                  es[i].nodes[k].ref]
                    /\ g[i].field = "relations" =>
                          PrefixSums(g[i].msg.memids)
                            = [k \in 1..Len(es[i].members) |->
                                  es[i].members[k].ref]

(***************************************************************************)
(* C18, as stated: a write call that fails leaves the working block as it  *)
(* was before the call.                                                    *)
(***************************************************************************)
C18_FailedWriteKeepsBlock ==
    [][pc' = "failed" => m_primitive_block' = m_primitive_block]_vars

(***************************************************************************)
(* C19, as stated: no entity whose version or uid is written and lies      *)
(* above INT32_MAX is taken into a block; the call is answered with an     *)
(* error instead.                                                          *)
(***************************************************************************)
C19_OutOfRangeRejected ==
    \A i \in 1..Len(input) : ~OutOfRange(m_options, input[i])

(***************************************************************************)
(* The constructor.  SpecConstructor starts before construction, runs the  *)
(* constructor on one File and goes on with the header and the end of the  *)
(* output; calls holds the File the constructor was called with.           *)
(***************************************************************************)

LevelSamples ==
    { <<>>, <<"0">>, <<"6">>, <<"9">>, <<"1", "0">>, <<"-", "1">>,
      <<"+", "6">>, <<" ", "6">>, <<"6", "x">>, <<"x">>, <<"6", " ">>,
      <<"-">>, <<"6", ".", "5">> }

ConfigSamples ==
    { [pbf_dense_nodes |-> d, add_metadata |-> MetaAll,
       has_multiple_object_versions |-> FALSE, locations_on_ways |-> FALSE,
       pbf_compression |-> c, pbf_add_metadata |-> a,
       pbf_compression_level |-> l] :
      d \in BOOLEAN, c \in {"none", "zlib", "lz4"}, a \in {"", "true"},
      l \in LevelSamples }

\* before the constructor body: default options, an empty block
InitConstructor ==
    /\ ndebug = TRUE
    /\ m_options = pbf_output_options
    /\ m_primitive_block = BlockNew
    /\ pool = <<>>
    /\ m_output_queue = <<>>
    /\ sink = <<>>
    /\ written = <<>>
    /\ early = {}
    /\ pc = "start"
    /\ waiting = NotWaiting
    /\ input = <<>>
    /\ calls = <<>>
    /\ NoVerboseOutput

\* PBFOutputFormat::PBFOutputFormat(pool, file, output_queue)
PBFOutputFormat(file) ==
    LET r == Constructor(file)
    IN  /\ pc = "start"
        /\ m_options' = r.options
        /\ pc' = IF r.threw THEN "invalid_argument" ELSE "constructed"
        /\ calls' = Append(calls, [op |-> "PBFOutputFormat", arg |-> file,
                                   ret |-> r.threw])
        /\ UNCHANGED <<ndebug, verbose_vars, m_primitive_block, pool,
                       m_output_queue, sink, written, early, waiting, input>>

NextConstructor ==
    \/ \E f \in ConfigSamples : PBFOutputFormat(f)
    \/ \E h \in HeaderSamples : write_header(h)
    \/ write_end
    \/ output_queue_push
    \/ \E j \in 1..Len(pool) : worker(j)
    \/ writer

SpecConstructor == InitConstructor /\ [][NextConstructor]_vars

\* s is an integer in decimal notation: digits, after an optional sign and
\* optional white space before it
IsInteger(s) ==
    \E k \in 1..Len(s) :
        /\ \A i \in k..Len(s) : IsDigit(s[i])
        /\ \A i \in 1..(k - 1) :
              \/ s[i] \in SpaceChars
              \/ i = k - 1 /\ s[i] \in {"+", "-"}

\* the integer s is the notation of
IntegerOf(s) ==
    LET k == CHOOSE k \in 1..Len(s) :
                 /\ \A i \in k..Len(s) : IsDigit(s[i])
                 /\ k > 1 => ~IsDigit(s[k - 1])
        abs == SumSeq([i \in 1..(Len(s) - k + 1) |->
                         DigitValue(s[k + i - 1]) * 10 ^ (Len(s) - k + 1 - i)])
    IN  IF k > 1 /\ s[k - 1] = "-" THEN -abs ELSE abs

(***************************************************************************)
(* C20: the constructor throws, with nothing submitted to the pool and     *)
(* nothing pushed to the output queue, when pbf_add_metadata is not empty, *)
(* when pbf_compression_level is set and is not an integer, and when it is *)
(* set while pbf_compression is none; in every other case in which the     *)
(* level is set and is one the codec takes, the constructor returns and    *)
(* the compression level of the options is the integer given.              *)
(***************************************************************************)
C20_ConstructorErrors ==
    \A i \in 1..Len(calls) :
        calls[i].op = "PBFOutputFormat" =>
            LET file == calls[i].arg
                pbl == file.pbf_compression_level
                fails ==
                    \/ file.pbf_add_metadata # ""
                    \/ pbl # <<>> /\ ~IsInteger(pbl)
                    \/ pbl # <<>> /\ file.pbf_compression = "none"
            IN  /\ fails =>
                      /\ pc = "invalid_argument"
                      /\ pool = <<>>
                      /\ m_output_queue = <<>>
                      /\ waiting = NotWaiting
                /\ (/\ ~fails
                    /\ pbl # <<>>
                    /\ file.pbf_compression = "zlib"
                    /\ zlib_check_compression_level(IntegerOf(pbl))) =>
                      /\ pc # "invalid_argument"
                      /\ m_options.compression_level = IntegerOf(pbl)

\* the constructor was called with zlib and a level that is an integer
\* followed by another character, and threw
C20_Witness ==
    /\ Len(calls) = 1
    /\ calls[1].arg.pbf_add_metadata = ""
    /\ calls[1].arg.pbf_compression = "zlib"
    /\ calls[1].arg.pbf_compression_level = <<"6", "x">>
    /\ pc = "invalid_argument"

(***************************************************************************)
(* C21: in a build without lz4 the constructor throws when pbf_compression *)
(* is lz4, no job submitted asks for lz4 compression, and no job ends with *)
(* the error of SerializeBlob for lz4.                                     *)
(***************************************************************************)
C21_Lz4Rejected ==
    ~OSMIUM_WITH_LZ4 =>
        /\ \A i \in 1..Len(calls) :
              (calls[i].op = "PBFOutputFormat"
                 /\ calls[i].arg.pbf_compression = "lz4")
                  => pc = "invalid_argument"
        /\ \A j \in 1..Len(pool) :
              /\ pool[j].blob.use_compression # "lz4"
              /\ pool[j].result # PbfError

\* the constructor was called with lz4 and nothing else that is rejected,
\* and threw
C21_Witness ==
    /\ Len(calls) = 1
    /\ calls[1].arg.pbf_compression = "lz4"
    /\ calls[1].arg.pbf_add_metadata = ""
    /\ calls[1].arg.pbf_compression_level = <<>>
    /\ pc = "invalid_argument"
    /\ pool = <<>>

(***************************************************************************)
(* Runs of a few entities, to follow the jobs through the pool, the queue  *)
(* and the writer under every scheduling.                                  *)
(***************************************************************************)

PipelineEntities == {Node(1, NoTags)} \cup WaySamples

NextPipeline ==
    \/ write_header(SampleHeader)
    \/ \E e \in PipelineEntities : node(e)
    \/ \E e \in PipelineEntities : way(e)
    \/ write_end
    \/ output_queue_push
    \/ \E j \in 1..Len(pool) : worker(j)
    \/ writer

SpecPipeline == Init /\ [][NextPipeline]_vars

\* the block and the blobs submitted once the entities es are written, one
\* after the other, from the block b and the blobs js on
RECURSIVE RunFrom(_, _, _, _)
RunFrom(opts, b, js, es) ==
    IF es = <<>> THEN [block |-> b, jobs |-> js]
    ELSE LET e == Head(es)
             type == GroupType(opts, e)
         IN  IF can_add(b, type)
             THEN RunFrom(opts, AddEntity(b, opts, e), js, Tail(es))
             ELSE IF b.count = 0
             THEN RunFrom(opts, AddEntity(reset(b, type), opts, e), js,
                          Tail(es))
             ELSE RunFrom(opts, AddEntity(reset(b, type), opts, e),
                          Append(js, DataBlob(b, opts)), Tail(es))

\* the blobs of header and entities under the options, the last block
\* included once the output is finished
BlobsOf(opts, header, es, finished) ==
    LET r == RunFrom(opts, BlockNew, <<HeaderBlob(opts, header)>>, es)
    IN  IF finished /\ r.block.count > 0
        THEN Append(r.jobs, DataBlob(r.block, opts))
        ELSE r.jobs

(***************************************************************************)
(* C22: what is written to the sink is a function of the header, the       *)
(* entities and the options alone: whatever the order in which the workers *)
(* run and complete, the sink holds the first blobs of that sequence, and  *)
(* all of them once the output is finished and the queue is drained.       *)
(***************************************************************************)
C22_ScheduleIndependent ==
    LET blobs == BlobsOf(m_options, SampleHeader, input, pc = "closed")
    IN  /\ Len(sink) <= Len(blobs)
        /\ \A i \in 1..Len(sink) : sink[i] = SerializeBlobCall(blobs[i])
        /\ (pc = "closed" /\ Drained) => Len(sink) = Len(blobs)

\* three blobs are written, and a worker completed a job ahead of an
\* earlier one
C22_Witness ==
    /\ pc = "closed"
    /\ Drained
    /\ Len(sink) >= 3
    /\ early # {}

(***************************************************************************)
(* The same runs with threads that keep running: the pool runs the jobs    *)
(* it holds, the writer takes a future that is ready, and a push that      *)
(* finds room in the queue returns.                                        *)
(***************************************************************************)

\* the pool runs a job as long as one is left to run
Fairness ==
    /\ WF_vars(\E j \in 1..Len(pool) : worker(j))
    /\ WF_vars(writer)
    /\ WF_vars(output_queue_push)

\* the options of a File with nothing set but the metadata
InitLive ==
    /\ Init
    /\ m_options.use_dense_nodes
    /\ m_options.add_metadata = MetaAll

SpecLive == InitLive /\ [][NextPipeline]_vars /\ Fairness

\* every job submitted is written, in the sink and no longer in the queue
AllWritten ==
    /\ m_output_queue = <<>>
    /\ Len(sink) = Len(pool)
    /\ \A j \in 1..Len(pool) : \E i \in 1..Len(written) :
          written[i] = j /\ sink[i] = pool[j].result /\ sink[i] # NoResult

(***************************************************************************)
(* C23: once the output is finished, every future that was pushed is       *)
(* eventually taken by the writer and written to the sink and the queue    *)
(* becomes empty; a call that waits for room in the full queue eventually  *)
(* goes on.                                                                *)
(***************************************************************************)
C23_EventuallyDrained ==
    /\ (pc = "closed") ~> AllWritten
    /\ (waiting # NotWaiting /\ Len(m_output_queue) = QueueCap)
          ~> (waiting = NotWaiting)

\* write_end waits for room in the full queue while no job in the queue is
\* done
C23_Witness ==
    /\ waiting # NotWaiting
    /\ waiting.op = "write_end"
    /\ Len(m_output_queue) = QueueCap
    /\ \A i \in 1..Len(m_output_queue) :
          pool[m_output_queue[i]].result = NoResult

(***************************************************************************)
(* Failures: the compression of a job throws in the pool thread, or an     *)
(* exception leaves a handler of the calling thread.                       *)
(***************************************************************************)

\* the exception of a compression that failed
CompressionError == [error |-> "io_error"]

\* a pool thread runs job j and zlib_compress throws: the exception is
\* stored in the future
worker_fails(j) ==
    /\ pc # "aborted"
    /\ pool[j].result = NoResult
    /\ pool[j].blob.use_compression # "none"
    /\ pool' = [pool EXCEPT ![j].result = CompressionError]
    /\ early' = IF \E i \in 1..(j - 1) : pool[i].result = NoResult
                THEN early \cup {j} ELSE early
    /\ UNCHANGED <<m_options, ndebug, verbose_vars, calls, m_primitive_block,
                   m_output_queue, sink, written, waiting, input, pc>>

NextFailures ==
    \/ write_header(SampleHeader)
    \/ \E e \in PipelineEntities : node(e)
    \/ \E e \in PipelineEntities : way(e)
    \/ \E e \in PipelineEntities : Throws(e)
    \/ write_end
    \/ output_queue_push
    \/ \E j \in 1..Len(pool) : worker(j)
    \/ \E j \in 1..Len(pool) : worker_fails(j)
    \/ writer

SpecFailures == Init /\ [][NextFailures]_vars

\* the jobs whose compression failed
Failed == {j \in 1..Len(pool) : IsError(pool[j].result)}

(***************************************************************************)
(* C24: the writer meets the failure of a job when it takes the future of  *)
(* that job, after it wrote every blob submitted before it; it then stops, *)
(* so that no blob submitted after a failed job is ever in the sink and    *)
(* the sink holds no failed result.  Once an exception left a handler of   *)
(* the calling thread, no further job is submitted.                        *)
(***************************************************************************)
C24_FailureStopsOutput ==
    /\ [](/\ \A j \in Failed : \A i \in 1..Len(written) : written[i] <= j
          /\ \A i \in 1..Len(sink) :
                written[i] = i /\ sink[i] = SerializeBlobCall(pool[i].blob)
          /\ WriterStopped =>
                /\ written = [i \in 1..Len(written) |-> i]
                /\ Len(sink) = Len(written) - 1
                /\ written[Len(written)] \in Failed)
    /\ [][(pc = "failed" => Len(pool') = Len(pool) /\ pc' = "failed")
          /\ (WriterStopped => sink' = sink /\ written' = written)]_vars

\* the second of three jobs failed after the third was done; the writer
\* wrote the first and stopped at the second with the third in the queue
C24_Witness ==
    /\ Len(pool) >= 3
    /\ Failed = {2}
    /\ 3 \in early
    /\ pool[3].result # NoResult
    /\ written = <<1, 2>>
    /\ Len(sink) = 1
    /\ m_output_queue # <<>>

(***************************************************************************)
(* C25: the message of a job is the one built from the working block at    *)
(* the time of the submit; no later step (reset, entities added, strings   *)
(* added, other jobs run or written) changes the message of a job, and the *)
(* job compresses that message whenever it runs.                           *)
(***************************************************************************)
C25_PayloadIsSnapshot ==
    [][/\ \A j \in 1..Len(pool) :
             /\ j <= Len(pool')
             /\ pool'[j].blob = pool[j].blob
             /\ pool'[j].result # pool[j].result =>
                   pool'[j].result = SerializeBlobCall(pool[j].blob)
       /\ \A j \in (Len(pool) + 1)..Len(pool') :
             /\ j = Len(pool) + 1
             /\ pool'[j].blob \in {HeaderBlob(m_options, SampleHeader),
                                   DataBlob(m_primitive_block, m_options)}]_vars

\* a data job is still to be run while the working block was reset and holds
\* an entity written after the submit, with other strings
C25_Witness ==
    \E j \in DataJobs :
        /\ pool[j].result = NoResult
        /\ j \in {m_output_queue[i] : i \in 1..Len(m_output_queue)}
        /\ m_primitive_block.count = 1
        /\ Len(input) >= 2
        /\ DataBlob(m_primitive_block, m_options) # pool[j].blob

(***************************************************************************)
(* SerializeBlob::operator() on its own: it is applied to the messages of  *)
(* a few runs, under each compression, in a build with and without lz4,    *)
(* with a compressed length that is shorter or longer than the message.    *)
(* calls holds the last call.                                              *)
(***************************************************************************)

BlobRuns ==
    { <<Node(1, NoTags)>>, <<Node(5, ManyTags), Node(1, LongTag)>> }
      \cup { <<Node(1, NoTags), w>> : w \in WaySamples }
      \cup { <<r>> : r \in RelationSamples }

CompressionSamples == {"none", "zlib", "lz4"}

\* the jobs SerializeBlob is constructed for
BlobSamples(opts) ==
    LET blobs == {HeaderBlob(opts, h) : h \in HeaderSamples}
                   \cup UNION { LET bs == BlobsOf(opts, SampleHeader, es, TRUE)
                                IN  {bs[i] : i \in 1..Len(bs)} :
                                es \in BlobRuns }
    IN  { SerializeBlob(b.msg, b.blob_type, c, b.compression_level) :
          b \in blobs, c \in CompressionSamples }

\* lengths of the compressed data: a few header bytes, or the message and a
\* few header bytes
CompressedSizes(blob) == {SizeofInt64, MsgLen(blob) + SizeofInt64}

\* SerializeBlob::operator()
SerializeBlobRun(blob, with_lz4, zsize) ==
    /\ pc = "constructed"
    /\ IF ~ndebug /\ MsgLen(blob) > max_uncompressed_blob_size
       THEN /\ pc' = "aborted"
            /\ UNCHANGED calls
       ELSE /\ calls' =
                  << [op |-> "SerializeBlob",
                      arg |-> [blob |-> blob, with_lz4 |-> with_lz4,
                               zsize |-> zsize],
                      ret |-> SerializeBlobOutput(blob, with_lz4, zsize)] >>
            /\ UNCHANGED pc
    /\ UNCHANGED <<m_options, ndebug, verbose_vars, m_primitive_block, pool,
                   m_output_queue, sink, written, early, waiting, input>>

NextBlob ==
    \E blob \in BlobSamples(m_options), with_lz4 \in BOOLEAN :
        \E zsize \in CompressedSizes(blob) :
            SerializeBlobRun(blob, with_lz4, zsize)

SpecBlob == InitErrors /\ [][NextBlob]_vars

\* what a reader of the output finds: the number the four bytes stand for,
\* the bytes of a message, the bytes of the Blob with its data
SizeRead(bytes) ==
    ((bytes[1] * 256 + bytes[2]) * 256 + bytes[3]) * 256 + bytes[4]

RawLen(msg) ==
    IF "stringtable" \in DOMAIN msg THEN PrimitiveBlockLen(msg)
    ELSE HeaderBlockLen(msg)

DataFields == {"raw", "zlib_data", "lz4_data"}

BlobLen(b) ==
    IF "raw" \in DOMAIN b THEN BytesFieldLen(RawLen(b.raw))
    ELSE IntFieldLen(b.raw_size)
           + SumSeq([i \in 1..1 |->
                       LET f == CHOOSE f \in DOMAIN b \cap DataFields : TRUE
                       IN  BytesFieldLen(b[f].size)])

\* the calls of SerializeBlob::operator() that returned an output
Outputs ==
    {i \in 1..Len(calls) :
        calls[i].op = "SerializeBlob" /\ ~IsError(calls[i].ret)}

(***************************************************************************)
(* C26: every output of SerializeBlob::operator() starts with four bytes   *)
(* that are the length of the BlobHeader in network byte order; the        *)
(* datasize of the BlobHeader is the length of the Blob that follows, so   *)
(* that the output is 4 bytes, the header and the blob; the type is        *)
(* OSMHeader exactly for a header blob and OSMData exactly for a data blob.*)
(***************************************************************************)
C26_BlobFraming ==
    \A i \in Outputs :
        LET out == calls[i].ret
            blob == calls[i].arg.blob
        IN  /\ Len(out.size) = 4
            /\ \A k \in 1..4 : out.size[k] \in 0..255
            /\ SizeRead(out.size) = BlobHeaderSize(out.blob_header)
            /\ out.blob_header.datasize = BlobLen(out.blob)
            /\ (out.blob_header.type = "OSMHeader")
                   <=> (blob.blob_type = "header")
            /\ (out.blob_header.type = "OSMData")
                   <=> (blob.blob_type = "data")

\* a data blob compressed to more bytes than the message, itself longer than
\* max_uncompressed_blob_size
C26_Witness ==
    \E i \in Outputs :
        /\ calls[i].arg.blob.blob_type = "data"
        /\ calls[i].arg.blob.use_compression = "zlib"
        /\ calls[i].arg.zsize > MsgLen(calls[i].arg.blob)
        /\ MsgLen(calls[i].arg.blob) > max_uncompressed_blob_size
        /\ calls[i].ret.blob_header.datasize > max_uncompressed_blob_size

(***************************************************************************)
(* C27: the Blob of every output holds exactly one of raw, zlib_data and   *)
(* lz4_data, the one of the compression the job was made with; raw_size is *)
(* there exactly if the compression is not none and is then the length of  *)
(* the message, which is what was compressed; with compression none raw is *)
(* the message itself.                                                     *)
(***************************************************************************)
C27_BlobBody ==
    \A i \in Outputs :
        LET b == calls[i].ret.blob
            blob == calls[i].arg.blob
            c == blob.use_compression
        IN  /\ DOMAIN b \cap DataFields =
                  { CASE c = "none" -> "raw"
                      [] c = "zlib" -> "zlib_data"
                      [] c = "lz4" -> "lz4_data" }
            /\ ("raw_size" \in DOMAIN b) <=> (c # "none")
            /\ c = "none" => b.raw = blob.msg
            /\ c # "none" =>
                  /\ b.raw_size = RawLen(blob.msg)
                  /\ \A f \in DOMAIN b \cap DataFields :
                        /\ b[f].data.of = blob.msg
                        /\ b[f].data.codec = c

\* a data blob compressed with lz4 in a build with lz4
C27_Witness ==
    \E i \in Outputs :
        /\ calls[i].arg.blob.blob_type = "data"
        /\ calls[i].arg.blob.use_compression = "lz4"
        /\ "lz4_data" \in DOMAIN calls[i].ret.blob
        /\ calls[i].ret.blob.raw_size > 0

(***************************************************************************)
(* From the File to the blobs: the constructor on a File, then the header  *)
(* and entities.                                                           *)
(***************************************************************************)

\* Files with and without dense nodes, metadata and multiple versions
FeatureFiles ==
    { [f EXCEPT !.has_multiple_object_versions = h] :
      f \in FileSamples, h \in BOOLEAN }

NextFeatures ==
    \/ \E f \in FeatureFiles : PBFOutputFormat(f)
    \/ write_header(SampleHeader)
    \/ \E e \in PipelineEntities : node(e)
    \/ \E e \in PipelineEntities : way(e)
    \/ write_end
    \/ output_queue_push
    \/ \E j \in 1..Len(pool) : worker(j)
    \/ writer

SpecFeatures == InitConstructor /\ [][NextFeatures]_vars

\* the strings of a repeated string field
Features(ss) == {ss[i] : i \in 1..Len(ss)}

\* the job holds a PrimitiveBlock with a DenseNodes message
IsDenseJob(j) ==
    /\ pool[j].blob.blob_type = "data"
    /\ \E i \in 1..Len(pool[j].blob.msg.primitivegroup) :
          pool[j].blob.msg.primitivegroup[i].field = "dense"

(***************************************************************************)
(* C28: the required_features of every header blob hold OsmSchema-V0.6,    *)
(* hold DenseNodes exactly if the File asks for dense nodes and            *)
(* HistoricalInformation exactly if the File has multiple versions of      *)
(* objects; a data blob with a DenseNodes message comes after a header     *)
(* blob that required DenseNodes.                                          *)
(***************************************************************************)
C28_RequiredFeatures ==
    \A j \in 1..Len(pool) :
        LET file == calls[1].arg
            blob == pool[j].blob
        IN  /\ blob.blob_type = "header" =>
                  LET required == Features(blob.msg.required_features)
                  IN  /\ "OsmSchema-V0.6" \in required
                      /\ ("DenseNodes" \in required) <=> file.pbf_dense_nodes
                      /\ ("HistoricalInformation" \in required)
                            <=> file.has_multiple_object_versions
                      /\ required \subseteq
                            {"OsmSchema-V0.6", "DenseNodes",
                             "HistoricalInformation"}
            /\ IsDenseJob(j) =>
                  \E i \in 1..(j - 1) :
                      /\ pool[i].blob.blob_type = "header"
                      /\ "DenseNodes" \in
                            Features(pool[i].blob.msg.required_features)
            /\ (blob.blob_type = "data" /\ ~file.pbf_dense_nodes) =>
                  ~IsDenseJob(j)

\* a File with dense nodes and all metadata but single versions: the header
\* and a DenseNodes blob are written
C28_Witness ==
    /\ Len(calls) = 1
    /\ calls[1].arg.pbf_dense_nodes
    /\ calls[1].arg.add_metadata = MetaAll
    /\ ~calls[1].arg.has_multiple_object_versions
    /\ Len(sink) >= 2
    /\ IsDenseJob(2)

(***************************************************************************)
(* class VerboseOutput (util/verbose_output.hpp).  std::cerr holds, in the *)
(* order written, the characters of the values and, as one item each, the  *)
(* runtime written by start_line.                                          *)
(***************************************************************************)

\* the decimal digits of a number that is not negative
RECURSIVE Decimal(_)
Decimal(n) ==
    IF n < 10 THEN <<DigitChars[n + 1]>>
    ELSE Decimal(n \div 10) \o <<DigitChars[(n % 10) + 1]>>

\* operator<< of a stream for an int
FormatInt(n) == IF n < 0 THEN <<"-">> \o Decimal(-n) ELSE Decimal(n)

\* std::setw(w) with the fill character: the field is filled on the left
SetW(w, fill, cs) ==
    IF Len(cs) >= w THEN cs ELSE [i \in 1..(w - Len(cs)) |-> fill] \o cs

\* output_buffer << value: the characters of a value, a string or an int
OutputBuffer(value) ==
    IF "str" \in DOMAIN value THEN value.str ELSE FormatInt(value.int)

\* VerboseOutput::runtime
runtime(vo, time) == time - vo.m_start

\* the fill character of std::cerr
CerrFill == " "

\* what start_line writes to std::cerr: minutes with the fill character of
\* the stream, seconds filled with zeros
RuntimeChars(elapsed) ==
    <<"[">> \o SetW(2, CerrFill, FormatInt(elapsed \div 60)) \o <<":">>
      \o SetW(2, "0", FormatInt(elapsed % 60)) \o <<"]", " ">>

\* VerboseOutput::start_line: the object and std::cerr after the call
start_line(vo, err, time) ==
    IF vo.m_newline
    THEN [verbose_output |-> [vo EXCEPT !.m_newline = FALSE],
          cerr |-> Append(err, [runtime |-> RuntimeChars(runtime(vo, time))])]
    ELSE [verbose_output |-> vo, cerr |-> err]

\* the characters as items of std::cerr
Chars(cs) == [i \in 1..Len(cs) |-> [char |-> cs[i]]]

\* an operator<< that starts the line before it looks at the verbose mode
OutputUnchecked(vo, err, time, value) ==
    LET str == OutputBuffer(value)
        started == start_line(vo, err, time)
    IN  IF vo.m_verbose
        THEN [verbose_output |->
                 [started.verbose_output EXCEPT
                    !.m_newline =
                        IF str # <<>> /\ str[Len(str)] = "\n" THEN TRUE
                        ELSE @],
              cerr |-> started.cerr \o Chars(str)]
        ELSE started

\* operator<<(VerboseOutput&, T value): the object and std::cerr after the
\* call
Output(vo, err, time, value) ==
    IF vo.m_verbose
    THEN LET str == OutputBuffer(value)
             started == start_line(vo, err, time)
         IN  [verbose_output |->
                 [started.verbose_output EXCEPT
                    !.m_newline =
                        IF str # <<>> /\ str[Len(str)] = "\n" THEN TRUE
                        ELSE @],
              cerr |-> started.cerr \o Chars(str)]
    ELSE [verbose_output |-> vo, cerr |-> err]

\* the most items written to std::cerr
MaxCerr == 6

\* the values written: strings without, with one and with two newlines,
\* and an int
ValueSamples ==
    { [str |-> s] :
        s \in { <<>>, <<"a">>, <<"\n">>, <<"a", "\n">>, <<"a", "\n", "b">>,
                <<"a", "\n", "b", "\n">> } }
      \cup { [int |-> 42] }

\* the values of time(NULL) as the program runs
Times == {0, 5, 65}

InitVerbose ==
    /\ ndebug = TRUE
    /\ m_options = pbf_output_options
    /\ m_primitive_block = BlockNew
    /\ pool = <<>>
    /\ m_output_queue = <<>>
    /\ sink = <<>>
    /\ written = <<>>
    /\ early = {}
    /\ pc = "start"
    /\ waiting = NotWaiting
    /\ input = <<>>
    /\ calls = <<>>
    /\ now \in Times
    /\ \E v \in BOOLEAN : verbose_output = VerboseOutput(v, now)
    /\ cerr = <<>>

\* verbose_output << value; calls holds the last call
operator_output(value) ==
    LET r == Output(verbose_output, cerr, now, value)
    IN  /\ Len(r.cerr) <= MaxCerr
        /\ verbose_output' = r.verbose_output
        /\ cerr' = r.cerr
        /\ calls' = << [op |-> "operator<<", arg |-> value] >>
        /\ UNCHANGED <<pbf_vars, now>>

\* VerboseOutput::verbose(bool)
verbose(v) ==
    /\ verbose_output' = [verbose_output EXCEPT !.m_verbose = v]
    /\ calls' = << [op |-> "verbose", arg |-> v] >>
    /\ UNCHANGED <<pbf_vars, cerr, now>>

\* time passes
time_passes ==
    /\ \E t \in Times : t > now /\ now' = t
    /\ UNCHANGED <<pbf_vars, calls, verbose_output, cerr>>

NextVerbose ==
    \/ \E value \in ValueSamples : operator_output(value)
    \/ \E v \in BOOLEAN : verbose(v)
    \/ time_passes

SpecVerbose == InitVerbose /\ [][NextVerbose]_vars

(***************************************************************************)
(* C29: an operator<< on a VerboseOutput that is not in verbose mode       *)
(* writes nothing to std::cerr and leaves m_start, m_verbose and m_newline *)
(* as they are, whatever the value and whatever was written before.        *)
(***************************************************************************)
C29_SilentWhenNotVerbose ==
    [][(/\ ~verbose_output.m_verbose
        /\ calls' # <<>>
        /\ calls'[1].op = "operator<<")
          => /\ cerr' = cerr
             /\ verbose_output' = verbose_output]_vars

\* output in verbose mode that ended in the middle of a line, then verbose
\* mode was switched off and a value with a newline was written, some time
\* after the start
C29_Witness ==
    /\ ~verbose_output.m_verbose
    /\ ~verbose_output.m_newline
    /\ calls # <<>>
    /\ calls[1].op = "operator<<"
    /\ calls[1].arg = [str |-> <<"a", "\n">>]
    /\ Len(cerr) = 2
    /\ now > verbose_output.m_start

\* the item of std::cerr is a runtime written by start_line
IsRuntime(item) == "runtime" \in DOMAIN item

\* the item of std::cerr is the first of a line of output
StartsLine(i) == i = 1 \/ cerr[i - 1] = [char |-> "\n"]

(***************************************************************************)
(* C30: every line written to std::cerr starts with the runtime and the    *)
(* runtime is written nowhere else: an item of std::cerr is a runtime      *)
(* exactly if it is the first item or the item before it is a newline.     *)
(***************************************************************************)
C30_RuntimeStartsEveryLine ==
    \A i \in 1..Len(cerr) : IsRuntime(cerr[i]) <=> StartsLine(i)

(***************************************************************************)
(* item_type.hpp: the item types and their characters.  SpecItemType calls *)
(* the two conversions on the item types and on sample characters; calls   *)
(* holds each call with its result.  A character is a string of length 1.  *)
(***************************************************************************)

\* Number of conversions called in one run of SpecItemType.
MaxConversions == 2

\* enum class item_type
item_type ==
    { "undefined", "node", "way", "relation", "area", "changeset",
      "tag_list", "way_node_list", "relation_member_list",
      "relation_member_list_with_full_members", "outer_ring", "inner_ring" }

\* a char_to_item_type that does not tell upper case from lower case
char_to_item_type_any_case(c) ==
    CASE c \in {"X", "x"} -> "undefined"
      [] c \in {"n", "N"} -> "node"
      [] c \in {"w", "W"} -> "way"
      [] c \in {"r", "R"} -> "relation"
      [] c \in {"a", "A"} -> "area"
      [] c \in {"c", "C"} -> "changeset"
      [] c \in {"T", "t"} -> "tag_list"
      [] c \in {"M", "m"} -> "relation_member_list"
      [] c \in {"F", "f"} -> "relation_member_list_with_full_members"
      [] c \in {"O", "o"} -> "outer_ring"
      [] c \in {"I", "i"} -> "inner_ring"
      [] OTHER -> "undefined"

\* char_to_item_type
char_to_item_type(c) ==
    CASE c = "X" -> "undefined"
      [] c = "n" -> "node"
      [] c = "w" -> "way"
      [] c = "r" -> "relation"
      [] c = "a" -> "area"
      [] c = "c" -> "changeset"
      [] c = "T" -> "tag_list"
      [] c = "N" -> "way_node_list"
      [] c = "M" -> "relation_member_list"
      [] c = "F" -> "relation_member_list_with_full_members"
      [] c = "O" -> "outer_ring"
      [] c = "I" -> "inner_ring"
      [] OTHER -> "undefined"

\* item_type_to_char; a value that is no enumerator falls out of the switch
item_type_to_char(type) ==
    CASE type = "undefined" -> "X"
      [] type = "node" -> "n"
      [] type = "way" -> "w"
      [] type = "relation" -> "r"
      [] type = "area" -> "a"
      [] type = "changeset" -> "c"
      [] type = "tag_list" -> "T"
      [] type = "way_node_list" -> "N"
      [] type = "relation_member_list" -> "M"
      [] type = "relation_member_list_with_full_members" -> "F"
      [] type = "outer_ring" -> "O"
      [] type = "inner_ring" -> "I"
      [] OTHER -> "X"

\* characters the conversions are called with: those of the switch and
\* others (the other case of a letter, digits, white space, NUL as "")
CharSamples ==
    { "X", "n", "w", "r", "a", "c", "T", "N", "M", "F", "O", "I",
      "x", "W", "R", "A", "C", "t", "m", "f", "o", "i", "0", " ", "" }

\* a call of item_type_to_char
item_type_to_char_call(type) ==
    /\ Len(calls) < MaxConversions
    /\ calls' = Append(calls, [op |-> "item_type_to_char", arg |-> type,
                               ret |-> item_type_to_char(type)])
    /\ UNCHANGED <<pbf_vars, verbose_vars>>

\* a call of char_to_item_type
char_to_item_type_call(c) ==
    /\ Len(calls) < MaxConversions
    /\ calls' = Append(calls, [op |-> "char_to_item_type", arg |-> c,
                               ret |-> char_to_item_type(c)])
    /\ UNCHANGED <<pbf_vars, verbose_vars>>

\* char_to_item_type called with the result of the last item_type_to_char
char_of_type_to_item_type ==
    /\ calls # <<>>
    /\ Len(calls) < MaxConversions
    /\ calls[Len(calls)].op = "item_type_to_char"
    /\ char_to_item_type_call(calls[Len(calls)].ret)

NextItemType ==
    \/ \E t \in item_type : item_type_to_char_call(t)
    \/ \E c \in CharSamples : char_to_item_type_call(c)
    \/ char_of_type_to_item_type

SpecItemType == InitConstructor /\ [][NextItemType]_vars

\* the characters of the item types
ItemTypeChars == {item_type_to_char(t) : t \in item_type}

\* C39: the character item_type_to_char gave for an item type is taken back
\* to that item type by char_to_item_type; two different item types get two
\* different characters; a character that is none of the twelve is taken to
\* undefined.
C39_CharRoundTrip ==
    /\ \A i \in 1..Len(calls) :
         /\ calls[i].op = "item_type_to_char"
              => /\ calls[i].arg \in item_type
                 /\ i < Len(calls) /\ calls[i + 1].op = "char_to_item_type"
                      /\ calls[i + 1].arg = calls[i].ret
                      => calls[i + 1].ret = calls[i].arg
                 /\ char_to_item_type(calls[i].ret) = calls[i].arg
         /\ calls[i].op = "char_to_item_type"
              /\ calls[i].arg \notin ItemTypeChars
              => calls[i].ret = "undefined"
    /\ \A i, k \in 1..Len(calls) :
         calls[i].op = "item_type_to_char"
           /\ calls[k].op = "item_type_to_char"
           /\ calls[i].arg # calls[k].arg
           => calls[i].ret # calls[k].ret

\* a way_node_list has been converted to its character and back
C39_Witness ==
    /\ Len(calls) = 2
    /\ calls[1] = [op |-> "item_type_to_char", arg |-> "way_node_list",
                   ret |-> "N"]
    /\ calls[2] = [op |-> "char_to_item_type", arg |-> "N",
                   ret |-> "way_node_list"]
    /\ Cardinality(ItemTypeChars) = 12

(***************************************************************************)
(* geom/factory.hpp: GeometryFactory.  m_impl is seen through the calls    *)
(* made on it, which calls holds in order, each [op, arg]; input holds the *)
(* call made on the factory and pc tells how it ended.  A Location is      *)
(* [x, y] in units of 1e-7 degrees; a NodeRef is [ref, location].          *)
(***************************************************************************)

\* Number of node references of a way node list.
MaxNodes == 3

\* Number of items of an area.
MaxRings == 3

\* Location::undefined_coordinate
undefined_coordinate == 2147483647

\* osmium::Location{}: both coordinates undefined
DefaultLocation ==
    [x |-> undefined_coordinate, y |-> undefined_coordinate]

\* the locations of the sample node references
LocationSamples == {DefaultLocation, [x |-> 0, y |-> 0], [x |-> 10, y |-> 20]}

\* IdentityProjection::operator(): Coordinates{lon(), lat()}, the degrees as
\* the pair of the stored integer and the precision it is divided by
m_projection(location) ==
    [x |-> <<location.x, 10000000>>, y |-> <<location.y, 10000000>>]

\* std::reverse_iterator over a list: crbegin() to crend()
Reverse(s) == [i \in 1..Len(s) |-> s[Len(s) + 1 - i]]

\* one call made on m_impl
ImplCall(op, arg) == [op |-> op, arg |-> arg]

NoArg == <<>>

\* fill_linestring(it, end): every location is added
fill_linestring(nodes) ==
    [i \in 1..Len(nodes) |->
       ImplCall("linestring_add_location", m_projection(nodes[i].location))]

\* the loop of fill_linestring_unique and add_points from last_location on:
\* a location is added if it differs from last_location
RECURSIVE AddUniqueFrom(_, _, _)
AddUniqueFrom(op, last_location, nodes) ==
    IF nodes = <<>> THEN <<>>
    ELSE IF last_location # Head(nodes).location
    THEN <<ImplCall(op, m_projection(Head(nodes).location))>>
           \o AddUniqueFrom(op, Head(nodes).location, Tail(nodes))
    ELSE AddUniqueFrom(op, last_location, Tail(nodes))

\* fill_linestring_unique(it, end): last_location is default-constructed
fill_linestring_unique(nodes) ==
    AddUniqueFrom("linestring_add_location", DefaultLocation, nodes)

\* use_nodes and direction
use_nodes == {"unique", "all"}

direction == {"forward", "backward"}

\* the calls create_linestring(wnl, un, dir) makes on m_impl
create_linestring_calls(wnl, un, dir) ==
    LET nodes == IF dir = "forward" THEN wnl ELSE Reverse(wnl)
    IN  <<ImplCall("linestring_start", NoArg)>>
          \o (IF un = "unique" THEN fill_linestring_unique(nodes)
              ELSE fill_linestring(nodes))
          \o <<ImplCall("linestring_finish", NoArg)>>

\* add_points(nodes)
add_points(nodes) ==
    AddUniqueFrom("multipolygon_add_location", DefaultLocation, nodes)

\* the loop of create_multipolygon over the items of the area from item i
\* on: the calls made and the counters at the end
RECURSIVE RingsFrom(_, _, _, _)
RingsFrom(area, i, num_polygons, num_rings) ==
    IF i > Len(area)
    THEN [impl |-> <<>>, num_polygons |-> num_polygons,
          num_rings |-> num_rings]
    ELSE LET ring == area[i]
             here ==
               CASE ring.type = "outer_ring" ->
                      (IF num_polygons > 0
                       THEN <<ImplCall("multipolygon_polygon_finish", NoArg)>>
                       ELSE <<>>)
                        \o <<ImplCall("multipolygon_polygon_start", NoArg),
                             ImplCall("multipolygon_outer_ring_start", NoArg)>>
                        \o add_points(ring.nodes)
                        \o <<ImplCall("multipolygon_outer_ring_finish",
                                      NoArg)>>
                 [] ring.type = "inner_ring" ->
                      <<ImplCall("multipolygon_inner_ring_start", NoArg)>>
                        \o add_points(ring.nodes)
                        \o <<ImplCall("multipolygon_inner_ring_finish",
                                      NoArg)>>
                 [] OTHER -> <<>>
             rest ==
               RingsFrom(area, i + 1,
                         IF ring.type = "outer_ring" THEN num_polygons + 1
                         ELSE num_polygons,
                         IF ring.type \in {"outer_ring", "inner_ring"}
                         THEN num_rings + 1 ELSE num_rings)
         IN  [rest EXCEPT !.impl = here \o @]

\* the calls create_multipolygon(area) makes on m_impl and whether it
\* throws geometry_error
create_multipolygon_calls(area) ==
    LET loop == RingsFrom(area, 1, 0, 0)
        started == <<ImplCall("multipolygon_start", NoArg)>> \o loop.impl
    IN  IF loop.num_rings = 0
        THEN [impl |-> started, threw |-> TRUE]
        ELSE [impl |-> started
                         \o <<ImplCall("multipolygon_polygon_finish", NoArg),
                              ImplCall("multipolygon_finish", NoArg)>>,
              threw |-> FALSE]

\* way node lists of up to MaxNodes node references
NodeRefLists ==
    UNION { [1..n -> LocationSamples] : n \in 0..MaxNodes }

WayNodeLists ==
    { [i \in 1..Len(ls) |-> [ref |-> i, location |-> ls[i]]] :
      ls \in NodeRefLists }

\* the nodes of the sample rings: a closed ring with a repeated location
RingNodes ==
    << [ref |-> 1, location |-> [x |-> 0, y |-> 0]],
       [ref |-> 2, location |-> [x |-> 10, y |-> 20]],
       [ref |-> 3, location |-> [x |-> 10, y |-> 20]],
       [ref |-> 1, location |-> [x |-> 0, y |-> 0]] >>

\* areas of up to MaxRings items: outer rings, inner rings and tag lists
AreaSamples ==
    { [i \in 1..Len(ts) |-> [type |-> ts[i], nodes |-> RingNodes]] :
      ts \in UNION { [1..n -> {"outer_ring", "inner_ring", "tag_list"}] :
                     n \in 0..MaxRings } }

\* GeometryFactory::create_linestring(wnl, un, dir)
create_linestring(wnl, un, dir) ==
    /\ pc = "start"
    /\ calls' = create_linestring_calls(wnl, un, dir)
    /\ input' = <<[op |-> "create_linestring", wnl |-> wnl, un |-> un,
                   dir |-> dir]>>
    /\ pc' = "returned"
    /\ UNCHANGED <<m_options, m_primitive_block, pool, m_output_queue, sink,
                   written, early, waiting, ndebug, verbose_vars>>

\* GeometryFactory::create_multipolygon(area)
create_multipolygon(area) ==
    LET r == create_multipolygon_calls(area)
    IN  /\ pc = "start"
        /\ calls' = r.impl
        /\ input' = <<[op |-> "create_multipolygon", area |-> area]>>
        /\ pc' = IF r.threw THEN "geometry_error" ELSE "returned"
        /\ UNCHANGED <<m_options, m_primitive_block, pool, m_output_queue,
                       sink, written, early, waiting, ndebug, verbose_vars>>

NextFactory ==
    \/ \E wnl \in WayNodeLists, un \in use_nodes, dir \in direction :
         create_linestring(wnl, un, dir)
    \/ \E area \in AreaSamples : create_multipolygon(area)

SpecFactory == InitConstructor /\ [][NextFactory]_vars

\* the arguments of the calls op made on m_impl, in order
Added(op) ==
    LET at == {i \in 1..Len(calls) : calls[i].op = op}
    IN  [i \in 1..Cardinality(at) |-> SubSeqAt(calls, at)[i].arg]

\* the locations of a list with every run of equal locations collapsed
Collapsed(ls) ==
    SubSeqAt(ls, {i \in 1..Len(ls) : i = 1 \/ ls[i] # ls[i - 1]})

\* the locations of a way node list in the direction asked for
LocationsOf(wnl, dir) ==
    LET ls == [i \in 1..Len(wnl) |-> wnl[i].location]
    IN  IF dir = "forward" THEN ls ELSE Reverse(ls)

\* C31: after create_linestring the locations added to the linestring are,
\* for use_nodes::unique, the locations of the way node list in the
\* direction asked for with every run of consecutive equal locations
\* collapsed to one, the first location of the list always among them, and
\* for use_nodes::all every location of the list.
C31_LinestringLocations ==
    \A i \in 1..Len(input) :
       input[i].op = "create_linestring" =>
         LET ls == LocationsOf(input[i].wnl, input[i].dir)
             expected == IF input[i].un = "unique" THEN Collapsed(ls) ELSE ls
         IN  /\ Added("linestring_add_location")
                  = [k \in 1..Len(expected) |-> m_projection(expected[k])]
             /\ ls # <<>> =>
                  /\ Added("linestring_add_location") # <<>>
                  /\ Added("linestring_add_location")[1] = m_projection(ls[1])

\* the positions of the calls op in calls
CallsOf(op) == {i \in 1..Len(calls) : calls[i].op = op}

\* at call i a polygon is open: started before i and not finished since
PolygonOpen(i) ==
    \E s \in CallsOf("multipolygon_polygon_start") :
       /\ s < i
       /\ \A k \in CallsOf("multipolygon_polygon_finish") : ~(s < k /\ k < i)

\* every multipolygon_polygon_start is followed by a polygon_finish, with no
\* other start or finish of a polygon before it
PolygonsMatched ==
    \A s \in CallsOf("multipolygon_polygon_start") :
       \E f \in CallsOf("multipolygon_polygon_finish") :
          /\ s < f
          /\ \A k \in CallsOf("multipolygon_polygon_start")
                        \cup CallsOf("multipolygon_polygon_finish") :
                ~(s < k /\ k < f)

\* every inner ring is added while a polygon is open
InnerRingsInPolygon ==
    \A i \in CallsOf("multipolygon_inner_ring_start")
               \cup CallsOf("multipolygon_inner_ring_finish") :
       PolygonOpen(i)

\* no multipolygon is left started and not finished
MultipolygonFinished ==
    CallsOf("multipolygon_start") # {}
      => CallsOf("multipolygon_finish") # {}

\* C38: after create_multipolygon, every multipolygon_polygon_start made on
\* the implementation is matched by one later multipolygon_polygon_finish,
\* every inner ring lies between a polygon_start and its polygon_finish,
\* and an area without rings has raised geometry_error leaving no
\* multipolygon started and never finished.
C38_BalancedProtocol ==
    \A i \in 1..Len(input) :
       input[i].op = "create_multipolygon" =>
         /\ PolygonsMatched
         /\ InnerRingsInPolygon
         /\ pc = "geometry_error" <=>
              \A k \in 1..Len(input[i].area) :
                 input[i].area[k].type \notin {"outer_ring", "inner_ring"}
         /\ pc = "geometry_error" => MultipolygonFinished

(***************************************************************************)
(* PrimitiveBlock::can_add called on the working block between the calls   *)
(* of the handlers.  In SpecCanAdd calls holds the last call of can_add:   *)
(* the type asked for, the block it was called on and the result.          *)
(***************************************************************************)

\* a key with which one dense node without metadata has a size estimate of
\* max_used_blob_size: 3 * sizeof(int64_t) + 96 + 1 = 121
CapKey == 
    "a_tag_key_of_such_a_length_that_one_dense_node_takes_the_estimate_exactly_to_the_size_cap_xxxxxx"

CapTag == << <<CapKey, "v">> >>

CanAddEntities == {Node(1, NoTags), Node(2, CapTag)} \cup WaySamples

\* OSMFormat::PrimitiveGroup: the group types a handler asks for
PrimitiveGroupTypes == {"dense", "nodes", "ways", "relations"}

\* m_primitive_block.can_add(type)
can_add_call(type) ==
    /\ pc = "open"
    /\ waiting = NotWaiting
    /\ calls' = <<[op |-> "can_add", arg |-> type,
                   block |-> m_primitive_block,
                   ret |-> can_add(m_primitive_block, type)]>>
    /\ UNCHANGED <<pbf_vars, verbose_vars>>

NextCanAdd ==
    \/ write_header(SampleHeader)
    \/ \E e \in CanAddEntities : node(e)
    \/ \E e \in CanAddEntities : way(e)
    \/ \E type \in PrimitiveGroupTypes : can_add_call(type)
    \/ write_end
    \/ output_queue_push
    \/ \E j \in 1..Len(pool) : worker(j)
    \/ writer

\* the options without metadata, with and without DenseNodes
InitCanAdd == Init /\ m_options.add_metadata = MetaNone

SpecCanAdd == InitCanAdd /\ [][NextCanAdd]_vars

\* a step is a call of can_add
IsCanAddCall == calls' # <<>> /\ calls' # calls

\* C32 as stated: can_add(kind) is true if and only if the type of the block
\* is kind, count is below MAX_ENTITIES_PER_BLOCK and size() is below 0.95
\* times MAX_UNCOMPRESSED_BLOB_SIZE.
C32_AsStated ==
    \A i \in 1..Len(calls) :
       LET b == calls[i].block
       IN  calls[i].ret <=>
             /\ b.type = calls[i].arg
             /\ b.count < max_entities_per_block
             /\ size(b) * 100 < 95 * max_uncompressed_blob_size

\* C32: can_add(kind) is true if and only if the type of the block is kind,
\* count is below MAX_ENTITIES_PER_BLOCK and size() is below 95% of
\* MAX_UNCOMPRESSED_BLOB_SIZE rounded down to a whole number of bytes; it is
\* false for every kind on a block whose type is not set, and a call leaves
\* the block as it was.
C32_CanAddIff ==
    /\ [](\A i \in 1..Len(calls) :
            LET b == calls[i].block
            IN  /\ calls[i].ret <=>
                     /\ b.type = calls[i].arg
                     /\ b.count < max_entities_per_block
                     /\ size(b) + 1 <= (95 * max_uncompressed_blob_size) \div 100
                /\ b.type = "unknown" => ~calls[i].ret)
    /\ [][IsCanAddCall =>
            /\ m_primitive_block' = m_primitive_block
            /\ calls'[1].block = m_primitive_block]_vars

\* can_add was called with the type of a block that is not full and whose
\* size estimate is max_used_blob_size, and returned false
C32_Witness ==
    /\ calls # <<>>
    /\ calls[1].block.type = calls[1].arg
    /\ calls[1].block.count = 1
    /\ calls[1].block.count < max_entities_per_block
    /\ size(calls[1].block) = max_used_blob_size
    /\ size(calls[1].block) * 100 < 95 * max_uncompressed_blob_size
    /\ ~calls[1].ret
    /\ m_primitive_block = calls[1].block

(***************************************************************************)
(* The working block between the calls made on the output format.          *)
(***************************************************************************)

\* no call on the output format is under way
BetweenCalls == waiting = NotWaiting /\ pc # "aborted"

\* C34: between the calls on the output format, the working block has a
\* DenseNodes buffer only if its type is DenseNodes, it has one whenever
\* its type is DenseNodes and count > 0, and while its type is DenseNodes
\* its group byte buffer is empty.
C34_DenseBlockShape ==
    LET b == m_primitive_block
    IN  BetweenCalls =>
          /\ b.dense_nodes # NoDense => b.type = "dense"
          /\ b.type = "dense" /\ b.count > 0 => b.dense_nodes # NoDense
          /\ b.type = "dense" => b.group_data = <<>>

\* a step resets the working block or changes its type while it holds
\* entities: the type changes, count goes down, or an entity is added and
\* count is not one more than before
ResetsHeldBlock ==
    LET b == m_primitive_block
    IN  /\ b.count > 0
        /\ \/ m_primitive_block'.type # b.type
           \/ m_primitive_block'.count < b.count
           \/ /\ Len(input') > Len(input)
              /\ m_primitive_block'.count # b.count + 1

\* C35: a step that resets a working block with count > 0 (or changes its
\* type) is the end of a call whose store_primitive_block has submitted a
\* job with the count entities of the block, the last job of the pool, and
\* the step has pushed the future of that job to the output queue.
C35_ResetOnlyAfterFlush ==
    [][ResetsHeldBlock =>
          LET j == Len(pool)
              b == m_primitive_block
          IN  /\ j > 0
              /\ j \in DataJobs
              /\ JobCount(j) = b.count
              /\ EntitiesOf(j)
                   = SubSeq(input, Len(input) - b.count + 1, Len(input))
              /\ waiting # NotWaiting
              /\ waiting.op = "switch"
              /\ waiting.future = j
              /\ m_output_queue' = Append(m_output_queue, j)]_vars

\* a block of two nodes was stored and reset for a way: its job is in the
\* pool, its future is pushed, and the block holds the way alone
C35_Witness ==
    /\ Len(input) = 3
    /\ input[2].kind = "node"
    /\ input[3].kind = "way"
    /\ m_primitive_block.type = "ways"
    /\ m_primitive_block.count = 1
    /\ \E j \in DataJobs :
          /\ JobCount(j) = 2
          /\ EntitiesOf(j) = SubSeq(input, 1, 2)
          /\ j = Len(pool)
          /\ \E i \in 1..Len(m_output_queue) : m_output_queue[i] = j

(***************************************************************************)
(* Runs of ways and relations, to compare the Way and Relation messages of *)
(* the blocks with the node references and members written.                *)
(***************************************************************************)

\* a second way, whose first ref is below the last ref of the first, with
\* a node reference whose location is not set: both coordinates are the
\* largest int32_t, at the width of the model
ShortWay ==
    [kind |-> "way", id |-> 11, meta |-> Meta(2), tags |-> <<>>,
     location |-> [x |-> 0, y |-> 0],
     nodes |-> << [ref |-> 7, location |-> [x |-> -250, y |-> 4930]],
                  [ref |-> 107,
                   location |-> [x |-> INT32_MAX, y |-> INT32_MAX]] >>,
     members |-> <<>>]

\* a second relation: a relation among its members, one role used twice
SuperRelation ==
    [kind |-> "relation", id |-> 8, meta |-> Meta(1), tags |-> <<>>,
     location |-> [x |-> 0, y |-> 0], nodes |-> <<>>,
     members |-> << [type |-> "relation", ref |-> 7, role |-> "part"],
                    [type |-> "node", ref |-> 3, role |-> "part"] >>]

MemberEntities ==
    WaySamples \cup {ShortWay} \cup RelationSamples \cup {SuperRelation}

\* the options without metadata: DenseNodes without locations on ways, and
\* Nodes with locations on ways
InitMembers == Init /\ m_options.add_metadata = MetaNone

NextMembers ==
    \/ write_header(SampleHeader)
    \/ \E e \in MemberEntities : way(e)
    \/ \E e \in MemberEntities : relation(e)
    \/ write_end
    \/ output_queue_push
    \/ \E j \in 1..Len(pool) : worker(j)
    \/ writer

SpecMembers == InitMembers /\ [][NextMembers]_vars

\* the messages of the group of data job j, each with the entity it was
\* built from
MessagesOf(j) ==
    LET g == pool[j].blob.msg.primitivegroup
    IN  {[field |-> g[k].field, msg |-> g[k].msg, entity |-> EntitiesOf(j)[k],
          stringtable |-> pool[j].blob.msg.stringtable, at |-> k] :
         k \in 1..Len(g)}

\* the Way and Relation messages submitted so far
Messages(field) ==
    {m \in UNION {MessagesOf(j) : j \in DataJobs} : m.field = field}

\* C36: in every Way message submitted, refs has one element per node
\* reference of the way and is delta-encoded from zero (its first element
\* is the first ref itself, whatever way came before); with
\* locations_on_ways the lon and lat arrays have the length of refs and are
\* each delta-encoded from zero; without it neither array is there.
C36_WayRefs ==
    \A m \in Messages("ways") :
       LET nodes == m.entity.nodes
           n == Len(nodes)
       IN  /\ m.entity.kind = "way"
           /\ Len(m.msg.refs) = n
           /\ PrefixSums(m.msg.refs) = [i \in 1..n |-> nodes[i].ref]
           /\ n > 0 => m.msg.refs[1] = nodes[1].ref
           /\ IF m_options.locations_on_ways
              THEN /\ Len(m.msg.lons) = n
                   /\ Len(m.msg.lats) = n
                   /\ PrefixSums(m.msg.lons)
                        = [i \in 1..n |-> lonlat2int(nodes[i].location.x)]
                   /\ PrefixSums(m.msg.lats)
                        = [i \in 1..n |-> lonlat2int(nodes[i].location.y)]
              ELSE m.msg.lons = <<>> /\ m.msg.lats = <<>>

\* two ways went to one block with locations on ways: the second way, whose
\* first ref is below the last ref of the first, starts with that ref
C36_Witness ==
    /\ m_options.locations_on_ways
    /\ \E a, b \in Messages("ways") :
          /\ a.at = 1
          /\ b.at = 2
          /\ a.stringtable = b.stringtable
          /\ a.entity.id = 10
          /\ a.msg.refs = <<100, 1, -2>>
          /\ b.entity = ShortWay
          /\ b.msg.refs = <<7, 100>>
          /\ Len(b.msg.lons) = 2
          /\ b.msg.lons[1] = lonlat2int(-250)

\* C37: in every Relation message submitted, roles_sid, memids and types
\* have one element per member, in member order: roles_sid[i] is the index
\* of the role of member i, memids is delta-encoded from zero, and types[i]
\* is 0 for a node, 1 for a way and 2 for a relation, nothing else.
C37_RelationMembers ==
    \A m \in Messages("relations") :
       LET members == m.entity.members
           n == Len(members)
       IN  /\ m.entity.kind = "relation"
           /\ Len(m.msg.roles_sid) = n
           /\ Len(m.msg.memids) = n
           /\ Len(m.msg.types) = n
           /\ PrefixSums(m.msg.memids) = [i \in 1..n |-> members[i].ref]
           /\ n > 0 => m.msg.memids[1] = members[1].ref
           /\ \A i \in 1..n :
                 /\ m.msg.roles_sid[i] \in 0..(Len(m.stringtable) - 1)
                 /\ m.stringtable[m.msg.roles_sid[i] + 1] = members[i].role
                 /\ m.msg.types[i] \in {0, 1, 2}
                 /\ m.msg.types[i]
                      = CASE members[i].type = "node" -> 0
                          [] members[i].type = "way" -> 1
                          [] members[i].type = "relation" -> 2

\* two relations went to one block: members of all three types, the ref of
\* the first member of the second relation written as it is
C37_Witness ==
    \E a, b \in Messages("relations") :
       /\ a.at = 1
       /\ b.at = 2
       /\ a.stringtable = b.stringtable
       /\ a.entity.id = 7
       /\ a.msg.memids = <<20, 2, -17>>
       /\ a.msg.types = <<1, 1, 0>>
       /\ b.entity = SuperRelation
       /\ b.msg.memids = <<7, -4>>
       /\ b.msg.types = <<2, 0>>
       /\ b.msg.roles_sid[1] = b.msg.roles_sid[2]

(***************************************************************************)
(* The output format used on after finish(): write_end() changes no member *)
(* of the object besides what store_primitive_block does, so nothing in    *)
(* the object stops a caller from writing or finishing again.  In          *)
(* SpecReuse calls counts the times the caller went on after write_end().  *)
(***************************************************************************)

\* Number of times the caller goes on after a write_end().
MaxReuse == 2

\* write_end() has returned and the caller goes on using the object
use_after_write_end ==
    /\ pc = "closed"
    /\ waiting = NotWaiting
    /\ Len(calls) < MaxReuse
    /\ pc' = "open"
    /\ calls' = Append(calls, [op |-> "use_after_write_end",
                               jobs |-> Len(pool)])
    /\ UNCHANGED <<m_options, m_primitive_block, pool, m_output_queue, sink,
                   written, early, waiting, input, ndebug, verbose_vars>>

NextReuse ==
    \/ write_header(SampleHeader)
    \/ \E e \in PipelineEntities : node(e)
    \/ \E e \in PipelineEntities : way(e)
    \/ write_end
    \/ use_after_write_end
    \/ output_queue_push
    \/ \E j \in 1..Len(pool) : worker(j)
    \/ writer

SpecReuse == InitLive /\ [][NextReuse]_vars

\* the DenseNodes messages in the group of data job j
DenseMessages(j) ==
    LET g == pool[j].blob.msg.primitivegroup
    IN  {k \in 1..Len(g) : g[k].field = "dense"}

\* C33: every data job submitted holds one string table and one group,
\* whose entries are all of one kind, and a group with DenseNodes holds
\* exactly one DenseNodes message and nothing else, however writes and
\* write_end() follow each other.
C33_OneGroupPerBlob ==
    \A j \in DataJobs :
       LET msg == pool[j].blob.msg
           g == msg.primitivegroup
       IN  /\ DOMAIN msg = {"stringtable", "primitivegroup"}
           /\ g # <<>>
           /\ \A k \in 1..Len(g) : g[k].field = g[1].field
           /\ DenseMessages(j) # {} => Len(g) = 1

====
